---- MODULE Spec2Model ----
(***************************************************************************)
(* Model of the playback engine of src/src/video_player.cpp: the session  *)
(* (struct VideoPlayer), the lifecycle operations of the C API (Open,     *)
(* Close, Pause, Resume, SeekToPercent) executed by caller threads, and   *)
(* the decode thread (VideoPlayer::LoopPlay).                             *)
(*                                                                         *)
(* Every critical section of a caller (a std::lock_guard scope) is one     *)
(* step that acquires the mutex and executes the body, followed by one     *)
(* step that releases it; reads and writes made without the mutex are      *)
(* steps of their own.  The two lock_guard scopes at the entry of LoopPlay *)
(* contain no blocking call and are one step each.                         *)
(*                                                                         *)
(* The byte streams of src/src/video_stream.cpp (VideoFileStream and       *)
(* VideoFileDescriptorStream) are modelled on their own, with the file or  *)
(* descriptor they are made from, in the section "byte streams".           *)
(***************************************************************************)
EXTENDS Integers, Sequences, FiniteSets, TLC

(* ------------------------------ bounds -------------------------------- *)

\* number of video frames (= packets) of a normal source
NumFrames == 2
\* seek fractions are the multiples of 1/PercentDen, from below 0 to above 1
PercentDen == 2
\* size of the pool of thread identities (one attached handle and one
\* extracted handle per caller can exist at a time)
MaxThreads == 3
\* number of clock ticks after which the wall clock is no longer tracked
MaxTicks == 3

\* largest width and height of a frame given to the rotated copy
MaxDim == 2
\* number of calls of Convert made on one converter
MaxCalls == 3
\* number of bytes of a file or pipe
FileLen == 3
\* values of FrameScale are the multiples of 1/ScaleDen
ScaleDen == 2

(* ----------------------------- constants ------------------------------ *)

AV_TIME_BASE == 1000000
\* whence values of Seek, errno values, and the distance of the probe
SEEK_SET == 0
SEEK_CUR == 1
SEEK_END == 2
AVSEEK_SIZE == 65536
EBADF == 9
EINVAL == 22
ENOSYS == 38
test_offset == 1024

AllCallers == {"c1", "c2"}
Threads == 1..MaxThreads
NoThread == 0
None == "none"
NoContext == [open |-> FALSE]
NoFrame == 0 - 1
\* start_time_us = -1: no baseline yet; also "no value" of an observation
NoTime == 0 - 1
\* no stream object exists; no path or descriptor is in use; no call made
NoStream == [class |-> "none"]
NoFile == [kind |-> "none", offset |-> 0, probe |-> 0]
NoByte == 0 - 1
NoVideoFrame == [AvFrame |-> "none"]
\* no call of the rotated copy; no converter object
NoCopy == [stage |-> "none"]
NoConverter == [swsContext |-> "none"]
\* no decoded frame is being stamped
NoStamp == [stage |-> "none"]
NoResult ==
    [op |-> "none", arg |-> 0, whence |-> 0, ret |-> 0, data |-> <<>>,
     at |-> 0, seen |-> [p \in 0..(FileLen - 1) |-> NoByte], reread |-> FALSE]

\* What the decode engine reports about a byte source: container duration
\* (AV_TIME_BASE units), video stream duration (stream ticks), the stream
\* time base 1/tbDen and the number of frames; frame i has pts i ticks.
\* pipe: the source is "fd://N" and descriptor N is a pipe.  format is
\* the pixel format of the decoded frames, rotate the value of the
\* stream's "rotate" tag (or the angle of its display matrix, rounded),
\* width and height the size of the coded picture.
FileSource ==
    [fmtDuration |-> NumFrames * 1000, streamDuration |-> NumFrames,
     tbDen |-> 1000, nframes |-> NumFrames, pipe |-> FALSE,
     format |-> "YUV420P", rotate |-> 0, width |-> 4, height |-> 2]
\* a stream shorter than half a microsecond whose container has no duration
TinySource ==
    [fmtDuration |-> 0, streamDuration |-> 1, tbDen |-> 10000000, nframes |-> 1,
     pipe |-> FALSE, format |-> "YUV420P", rotate |-> 0, width |-> 4,
     height |-> 2]
\* a stream of one and a half milliseconds
HalfSource ==
    [fmtDuration |-> 1500, streamDuration |-> 3, tbDen |-> 2000, nframes |-> 2,
     pipe |-> FALSE, format |-> "YUV420P", rotate |-> 0, width |-> 4,
     height |-> 2]
\* the media of FileSource arriving through a pipe
PipeSource == [FileSource EXCEPT !.pipe = TRUE]
Sources == {FileSource, TinySource, HalfSource, PipeSource}
\* the media of FileSource in a container that lasts longer than its video
\* stream (another stream of the container ends later), and in one that
\* reports a shorter duration than the video stream
LongSource == [FileSource EXCEPT !.fmtDuration = (NumFrames + 1) * 1000]
ShortSource == [FileSource EXCEPT !.fmtDuration = 1000]
SkewedSources == {LongSource, ShortSource}

\* pixel formats of decoded frames, and values of the rotation metadata
Formats == {"RGBA", "BGRA", "YUV420P"}
Rotations == {0 - 450, 0 - 270, 0 - 90, 0 - 45, 0, 90, 180, 270, 360}
\* FileSource decoded to each format, and FileSource with each rotation
FormatSources == {[FileSource EXCEPT !.format = f] : f \in Formats}
RotatedSources == {[FileSource EXCEPT !.rotate = r] : r \in Rotations}

\* the step of Open that fails, or "ok"
OpenOutcomes ==
    {"ok", "bad_fd", "io_alloc", "open_input", "stream_info", "video_props"}

\* VideoPlayerOptions values: which callbacks the caller supplied
OptionChoices ==
    {[VideoInfoCallback |-> TRUE, FrameCallback |-> TRUE,
      FrameScale |-> ScaleDen],
     [VideoInfoCallback |-> FALSE, FrameCallback |-> TRUE,
      FrameScale |-> ScaleDen]}
NoOptions ==
    [VideoInfoCallback |-> FALSE, FrameCallback |-> FALSE,
     FrameScale |-> ScaleDen]
\* both callbacks and each value of FrameScale (numerators over ScaleDen,
\* from below 0 to above 1)
Scales == (0 - 1)..(ScaleDen + 1)
ScaledOptions ==
    {[VideoInfoCallback |-> TRUE, FrameCallback |-> TRUE, FrameScale |-> n] :
        n \in Scales}

\* numerators of the seek fractions pnum / PercentDen a caller may pass
Percents == (0 - 1)..(PercentDen + 1)

\* The wall clock av_gettime(), in microseconds, advances in steps of
\* TickUs (the frame interval of FileSource) from Epoch.  From Horizon on
\* it is no longer tracked: Horizon stands for every later time.
TickUs == 1000000 \div FileSource.tbDen
Epoch == (NumFrames + 1) * TickUs
Horizon == Epoch + MaxTicks * TickUs

(* --------------------------- pure functions --------------------------- *)

\* av_rescale_q(a, {1, fromDen}, {1, toDen}): a * toDen / fromDen rounded
\* to nearest, halfway away from zero (a >= 0 here)
av_rescale_q(a, fromDen, toDen) == (2 * a * toDen + fromDen) \div (2 * fromDen)

\* a clamp that bounds the fraction from below only
ClampBelow(pnum) == IF pnum < 0 THEN 0 ELSE pnum

\* std::clamp(percent, 0.0f, 1.0f) on a fraction pnum / PercentDen
ClampPercent(pnum) ==
    IF pnum < 0 THEN 0 ELSE IF pnum > PercentDen THEN PercentDen ELSE pnum

\* pts of frame i in microseconds and in milliseconds (LoopPlay)
PtsUs(ctx, i) == (i * 1000000) \div ctx.tbDen
PtsMs(ctx, i) == (i * 1000) \div ctx.tbDen

\* duration used by SeekToPercent: container duration, else stream duration
SeekDuration(ctx) ==
    IF ctx.fmtDuration > 0 THEN ctx.fmtDuration
    ELSE IF ctx.streamDuration > 0
         THEN av_rescale_q(ctx.streamDuration, ctx.tbDen, AV_TIME_BASE)
         ELSE ctx.fmtDuration

\* index of the packet a backward-biased engine seek to target_us lands on
SeekIndex(ctx, target_us) ==
    CHOOSE i \in 0..(ctx.nframes - 1) :
        /\ PtsUs(ctx, i) <= target_us
        /\ \A j \in 0..(ctx.nframes - 1) : PtsUs(ctx, j) <= target_us => j <= i

\* FFmpegContext::LoadVideoProperties: TRUE iff a duration can be found
LoadVideoProperties(src) == src.streamDuration > 0 \/ src.fmtDuration > 0

\* FFmpegContext::FillVideoInfo: DurationMills = round(durationInSeconds
\* * 1000), durationInSeconds = durationInStreamTimebase / tbDen
FillVideoInfo(ctx) ==
    [DurationMills |->
        (2 * ctx.durationInStreamTimebase * 1000 + ctx.tbDen)
            \div (2 * ctx.tbDen)]

\* GetDurationMills: (int64_t)(durationInSeconds * 1000), 0 without context
GetDurationMills(ctx) ==
    IF ctx.open THEN (ctx.durationInStreamTimebase * 1000) \div ctx.tbDen
    ELSE 0

\* a % b of C for b > 0: the remainder has the sign of a
Remainder(a, b) == IF a >= 0 THEN a % b ELSE 0 - ((0 - a) % b)
Abs(a) == IF a >= 0 THEN a ELSE 0 - a
\* GetAvStreamRotateAngle: atoi(tag->value) % 360
GetAvStreamRotateAngle(src) == Remainder(src.rotate, 360)

\* the FFmpegContext built by a successful Open
NewContext(src) ==
    [open |-> TRUE, fmtDuration |-> src.fmtDuration,
     streamDuration |-> src.streamDuration, tbDen |-> src.tbDen,
     nframes |-> src.nframes, pipe |-> src.pipe,
     videoFormat |-> src.format,
     videoRotation |-> GetAvStreamRotateAngle(src),
     originWidth |-> src.width, originHeight |-> src.height,
     actualFrameWidth |->
        IF Abs(GetAvStreamRotateAngle(src)) \in {90, 270} THEN src.height
        ELSE src.width,
     actualFrameHeight |->
        IF Abs(GetAvStreamRotateAngle(src)) \in {90, 270} THEN src.width
        ELSE src.height,
     durationInStreamTimebase |->
        IF src.streamDuration > 0 THEN src.streamDuration
        ELSE av_rescale_q(src.fmtDuration, AV_TIME_BASE, src.tbDen)]

(* ------------------------------- state -------------------------------- *)

VARIABLES
    callers,          \* the caller threads that issue operations
    sources,          \* the byte sources the callers may open
    offered,          \* the option values the callers may pass to Open
    percents,         \* the fractions the callers may pass to SeekToPercent
    observing,        \* the observations below are being recorded
    Context,          \* player->Context (NoContext = null)
    IO,               \* player->IO is non-null
    VideoInfo,        \* player->VideoInfo is non-null
    FormatConverter,  \* player->FormatConverter is non-null
    Options,          \* player->Options
    CurrentTimeMills, \* atomic playback position
    StartWallClockUS, \* player->StartWallClockUS; no code reads it, and it
                      \* is recorded only with the observations
    IsRunning,        \* atomic running flag
    Worker,           \* std::thread Worker: NoThread or the attached thread
    Mutex,            \* holder of player->Mutex, or None
    readIdx,          \* demuxer position of the engine: next packet
    decBuf,           \* frame buffered in the decoder, or NoFrame
    tpc,              \* per thread identity: position in LoopPlay
    tframe,           \* per thread: the frame being delivered
    tstale,           \* per thread: its fmt/codec pointers were freed
    tstart,           \* per thread: local start_time_us (NoTime = -1)
    tpts,             \* per thread: local pts_us of the frame in tframe
    tfirst,           \* per thread: it has not published a position yet
    now,              \* the wall clock av_gettime()
    cpc,              \* per caller: position in its current operation
    cop,              \* per caller: current operation
    ctmp,             \* per caller: local std::thread tmp
    cpre,             \* per caller: IsRunning when the operation began
    carg,             \* per caller: argument / outcome of the operation
    cpct,             \* per caller: clamped seek fraction (numerator)
    cres,             \* per caller: return value of the operation
    aborted,          \* "no", or how the process died
    infoCalls,        \* per caller: metadata callbacks made by its Open
    earlyFrame,       \* a frame callback ran before the metadata callback
                      \* of the Open that started its thread had returned
    cbFrame,          \* the frame the last frame callback was invoked with,
                      \* NoFrame once the next frame has left the decoder
    restartAt,        \* wall clock of the last end-of-stream restart of the
                      \* running decode thread, or NoTime
    jumped,           \* no position was published since that restart
    infoDuration,     \* DurationMills given to the last metadata callback
    seekArg,          \* per caller: the fraction (numerator) it passed to
                      \* the SeekToPercent it is inside, as passed
    vf,               \* the VideoFrame the last frame callback was invoked
                      \* with and the decoded format and FrameScale it was
                      \* made from; NoVideoFrame when cbFrame is NoFrame
    stream,           \* the IVideoStream object under construction or in
                      \* use (its class and members), or NoStream
    file,             \* what the operating system keeps for the path or
                      \* descriptor the stream was made from
    ioResult,         \* the last call on the stream: the constructor of a
                      \* descriptor stream, or a Read or Seek with its
                      \* return value and bytes
    copy,             \* a call of CopyRgbaDataRotated: its arguments, the
                      \* destination buffer and its return value
    converter,        \* a FormatConverter object (its members), or
                      \* NoConverter
    stamp             \* a decoded frame on its way from
                      \* avcodec_receive_frame to the frame callback: its
                      \* timestamps, the position LoopPlay stores and the
                      \* VideoFrame.TimeMills it is delivered with

session == <<Context, IO, VideoInfo, FormatConverter, Options,
             CurrentTimeMills, StartWallClockUS, IsRunning, Worker, readIdx,
             decBuf>>
lvars == <<tstart, tpts, tfirst>>
tvars == <<tpc, tframe, tstale, lvars>>
cvars == <<cpc, cop, ctmp, cpre, carg, cpct, cres>>
hvars == <<infoCalls, earlyFrame>>
ovars == <<cbFrame, restartAt, jumped, infoDuration, seekArg, vf>>
svars == <<stream, file, ioResult>>
kvars == <<copy, converter, stamp>>
pvars == <<callers, sources, offered, percents, observing, now, session, Mutex,
           tvars, cvars, aborted, hvars, ovars>>
vars == <<pvars, svars, kvars>>

InitSession ==
    /\ Context = NoContext
    /\ IO = FALSE
    /\ VideoInfo = FALSE
    /\ FormatConverter = FALSE
    /\ Options = NoOptions
    /\ CurrentTimeMills = 0
    /\ StartWallClockUS = 0
    /\ IsRunning = FALSE
    /\ Worker = NoThread
    /\ Mutex = None
    /\ readIdx = 0
    /\ decBuf = NoFrame
    /\ tpc = [t \in Threads |-> "none"]
    /\ tframe = [t \in Threads |-> NoFrame]
    /\ tstale = [t \in Threads |-> FALSE]
    /\ tstart = [t \in Threads |-> NoTime]
    /\ tpts = [t \in Threads |-> 0]
    /\ tfirst = [t \in Threads |-> FALSE]
    /\ cpc = [c \in AllCallers |-> "idle"]
    /\ cop = [c \in AllCallers |-> "none"]
    /\ ctmp = [c \in AllCallers |-> NoThread]
    /\ cpre = [c \in AllCallers |-> FALSE]
    /\ carg = [c \in AllCallers |-> "none"]
    /\ cpct = [c \in AllCallers |-> 0]
    /\ cres = [c \in AllCallers |-> FALSE]
    /\ aborted = "no"
    /\ infoCalls = [c \in AllCallers |-> 0]
    /\ earlyFrame = FALSE
    /\ cbFrame = NoFrame
    /\ vf = NoVideoFrame
    /\ restartAt = NoTime
    /\ jumped = FALSE
    /\ infoDuration = NoTime
    /\ seekArg = [c \in AllCallers |-> 0]
    /\ stream = NoStream
    /\ file = NoFile
    /\ ioResult = NoResult
\* no call of the rotated copy is made, no converter is used on its own
\* and no frame is stamped on its own
NoParts == copy = NoCopy /\ converter = NoConverter /\ stamp = NoStamp

AllCallbacks ==
    [VideoInfoCallback |-> TRUE, FrameCallback |-> TRUE,
     FrameScale |-> ScaleDen]

\* CreateVideoPlayer; operations are issued from two caller threads.  The
\* source, the option value, the seek fraction (1 / PercentDen) and the
\* clock (not tracked), which the locking protocol does not read, are fixed.
Init ==
    /\ callers = AllCallers
    /\ sources = {FileSource}
    /\ offered = {AllCallbacks}
    /\ percents = {1}
    /\ observing = FALSE
    /\ now = Horizon
    /\ InitSession
    /\ NoParts
\* CreateVideoPlayer; operations are issued from one caller thread
InitSeq ==
    /\ callers = {"c1"}
    /\ sources = Sources
    /\ offered = OptionChoices
    /\ percents = Percents
    /\ observing = TRUE
    /\ now = Horizon
    /\ InitSession
    /\ NoParts

\* CreateVideoPlayer; operations are issued from one caller thread and
\* the wall clock is tracked; the source and the option value are fixed
\* and the seek fractions are those inside [0, 1]
InitTimed ==
    /\ callers = {"c1"}
    /\ sources = {FileSource}
    /\ offered = {AllCallbacks}
    /\ percents = 0..PercentDen
    /\ observing = TRUE
    /\ now = Epoch
    /\ InitSession
    /\ NoParts

(* ------------------------------ helpers ------------------------------- *)

\* thread positions inside the decode loop (the engine is in use)
InLoop == {"poll", "backoff", "recv", "pace", "cb"}
\* thread positions of a thread that has started and not yet returned
Live == {"start", "copy"} \cup InLoop

\* the process dies (std::terminate, or a fault): nothing of it is left
Crash(how) ==
    /\ aborted' = how
    /\ Context' = NoContext
    /\ IO' = FALSE
    /\ VideoInfo' = FALSE
    /\ FormatConverter' = FALSE
    /\ Options' = NoOptions
    /\ CurrentTimeMills' = 0
    /\ StartWallClockUS' = 0
    /\ IsRunning' = FALSE
    /\ Worker' = NoThread
    /\ Mutex' = None
    /\ readIdx' = 0
    /\ decBuf' = NoFrame
    /\ tpc' = [t \in Threads |-> "none"]
    /\ tframe' = [t \in Threads |-> NoFrame]
    /\ tstale' = [t \in Threads |-> FALSE]
    /\ tstart' = [t \in Threads |-> NoTime]
    /\ tpts' = [t \in Threads |-> 0]
    /\ tfirst' = [t \in Threads |-> FALSE]
    /\ cpc' = [c \in AllCallers |-> "idle"]
    /\ cop' = [c \in AllCallers |-> "none"]
    /\ ctmp' = [c \in AllCallers |-> NoThread]
    /\ cpre' = [c \in AllCallers |-> FALSE]
    /\ carg' = [c \in AllCallers |-> "none"]
    /\ cpct' = [c \in AllCallers |-> 0]
    /\ cres' = [c \in AllCallers |-> FALSE]
    /\ infoCalls' = [c \in AllCallers |-> 0]
    /\ earlyFrame' = FALSE
    /\ cbFrame' = NoFrame
    /\ vf' = NoVideoFrame
    /\ restartAt' = NoTime
    /\ jumped' = FALSE
    /\ infoDuration' = NoTime
    /\ seekArg' = [c \in AllCallers |-> 0]
    /\ UNCHANGED <<kvars, svars, callers, sources, offered, percents,
                   observing, now>>

\* the thread identity the next std::thread constructor call produces
NewThread ==
    CHOOSE t \in Threads :
        tpc[t] = "none" /\ \A u \in Threads : tpc[u] = "none" => t <= u

\* the new value of an observation whose old value is old
Observed(old, new) == IF observing THEN new ELSE old

\* av_gettime() - us; a time computed from a clock that is no longer
\* tracked is not tracked either
BaselineUs(us) == IF now >= Horizon THEN Horizon ELSE now - us
\* a baseline that does not subtract the known position
BaselineNow(ms) == BaselineUs(0)
\* av_gettime() - ms * 1000
Baseline(ms) == BaselineUs(ms * 1000)

\* std::thread::joinable()
Joinable(h) == h # NoThread

\* Worker = std::thread(&VideoPlayer::LoopPlay, player) with Worker not
\* joinable; move-assignment onto a joinable std::thread is std::terminate
SpawnWorker ==
    /\ \E t \in Threads : tpc[t] = "none"
    /\ Worker' = NewThread
    /\ tpc' = [tpc EXCEPT ![NewThread] = "start"]
    /\ UNCHANGED <<aborted, tframe, tstale, lvars>>

\* StopAndExtractWorker that clears the flag and leaves the handle in
\* Worker, so that the caller joins nothing
StopWithoutExtract(c) ==
    /\ Mutex = None
    /\ Mutex' = c
    /\ IsRunning' = FALSE
    /\ ctmp' = [ctmp EXCEPT ![c] = NoThread]
    /\ UNCHANGED Worker

\* StopAndExtractWorker that moves every joinable handle, whatever the flag
StopAndExtractJoinable(c) ==
    /\ Mutex = None
    /\ Mutex' = c
    /\ IsRunning' = FALSE
    /\ IF Joinable(Worker)
       THEN ctmp' = [ctmp EXCEPT ![c] = Worker] /\ Worker' = NoThread
       ELSE ctmp' = [ctmp EXCEPT ![c] = NoThread] /\ UNCHANGED Worker

\* the shared part of VideoPlayer::StopAndExtractWorker; the lock_guard is
\* released by Unlock when the helper returns
StopAndExtractWorker(c) ==
    /\ Mutex = None
    /\ Mutex' = c
    /\ IsRunning' = FALSE
    /\ IF IsRunning /\ Joinable(Worker)
       THEN ctmp' = [ctmp EXCEPT ![c] = Worker] /\ Worker' = NoThread
       ELSE ctmp' = [ctmp EXCEPT ![c] = NoThread] /\ UNCHANGED Worker

\* where a caller continues after the lock_guard of its position ends
AfterUnlock(pc) ==
    CASE pc = "open_fail" -> "ret"
      [] pc = "open_built" -> "open_spawn"
      [] pc = "open_spawned" -> "open_info"
      [] pc = "stopped" -> "join"
      [] pc = "close_freed" -> "ret"
      [] pc = "resume_fail" -> "ret"
      [] pc = "resume_ok" -> "ret"
      [] pc = "seek_fail" -> "ret"
      [] pc = "seek_done" -> "seek_restart"
      [] pc = "seek_restarted" -> "ret"
Held == {"open_fail", "open_built", "open_spawned", "stopped", "close_freed",
         "resume_fail", "resume_ok", "seek_fail", "seek_done",
         "seek_restarted"}
\* the value returned when the function returns from that position
ReturnValue(pc) == pc \in {"close_freed", "resume_ok", "seek_restarted"}

(* ------------------------- caller operations -------------------------- *)

\* a caller at rest may issue an operation
CanCall(c) == c \in callers /\ cpc[c] = "idle" /\ aborted = "no"
\* a caller inside operation op at position pc
At(c, op, pc) == cop[c] = op /\ cpc[c] = pc /\ aborted = "no"

\* Open that takes a session for attached only while it is running
AlreadyOpenedIfRunning == IsRunning

\* Open's test for a session already attached to a context
AlreadyOpened == Context.open

\* Open, first lock_guard scope: store the options, reject a second open,
\* create the stream, the decode context, the metadata and the converter
OpenBuild(c, opts, src, outcome) ==
    /\ CanCall(c)
    /\ src \in sources
    /\ opts \in offered
    /\ Mutex = None
    /\ outcome = "ok" => LoadVideoProperties(src)
    /\ Mutex' = c
    /\ Options' = opts
    /\ cop' = [cop EXCEPT ![c] = "Open"]
    /\ cpre' = [cpre EXCEPT ![c] = IsRunning]
    /\ IF AlreadyOpened
       THEN /\ carg' = [carg EXCEPT ![c] = "already"]
            /\ cpc' = [cpc EXCEPT ![c] = "open_fail"]
            /\ UNCHANGED <<Context, IO, VideoInfo, FormatConverter,
                           CurrentTimeMills, readIdx, decBuf, hvars, ovars>>
       ELSE /\ carg' = [carg EXCEPT ![c] =
                         IF outcome = "ok" THEN "ok" ELSE "step_failed"]
            /\ IF outcome = "bad_fd"
               THEN /\ cpc' = [cpc EXCEPT ![c] = "open_fail"]
                    /\ UNCHANGED <<Context, IO, VideoInfo, FormatConverter,
                                   CurrentTimeMills, readIdx, decBuf, hvars,
                                   ovars>>
               ELSE IF outcome # "ok"
               THEN /\ IO' = TRUE
                    /\ cpc' = [cpc EXCEPT ![c] = "open_fail"]
                    /\ UNCHANGED <<Context, VideoInfo, FormatConverter,
                                   CurrentTimeMills, readIdx, decBuf, hvars,
                                   ovars>>
               ELSE /\ IO' = TRUE
                    /\ Context' = NewContext(src)
                    /\ VideoInfo' = TRUE
                    /\ FormatConverter' = TRUE
                    /\ CurrentTimeMills' = 0
                    /\ readIdx' = 0
                    /\ decBuf' = NoFrame
                    /\ cpc' = [cpc EXCEPT ![c] = "open_built"]
                    /\ UNCHANGED <<hvars, ovars>>
    /\ UNCHANGED <<kvars, svars, callers, sources, offered, percents,
                   observing, now, StartWallClockUS, IsRunning, Worker, tvars,
                   ctmp, cpct, cres, aborted>>

\* Open, second lock_guard scope: set the flag and start the worker
OpenSpawn(c) ==
    /\ At(c, "Open", "open_spawn")
    /\ Mutex = None
    /\ IF Joinable(Worker)
       THEN Crash("worker_overwritten")
       ELSE /\ Mutex' = c
            /\ IsRunning' = TRUE
            /\ SpawnWorker
            /\ cpc' = [cpc EXCEPT ![c] = "open_spawned"]
            /\ UNCHANGED <<kvars, svars, callers, sources, offered, percents,
                           observing, now, Context, IO, VideoInfo,
                           FormatConverter, Options, StartWallClockUS,
                           CurrentTimeMills, readIdx, decBuf, cop, ctmp, cpre,
                           carg, cpct, cres, hvars, ovars>>

\* Open, after the locks: the metadata callback, then return true
OpenInfo(c) ==
    /\ At(c, "Open", "open_info")
    /\ infoCalls' = [infoCalls EXCEPT ![c] =
                        IF Options.VideoInfoCallback /\ VideoInfo
                        THEN Observed(infoCalls[c], infoCalls[c] + 1)
                        ELSE infoCalls[c]]
    /\ infoDuration' = IF Options.VideoInfoCallback /\ VideoInfo
                       THEN Observed(infoDuration,
                                     FillVideoInfo(Context).DurationMills)
                       ELSE infoDuration
    /\ earlyFrame' = FALSE
    /\ cpc' = [cpc EXCEPT ![c] = "ret"]
    /\ cres' = [cres EXCEPT ![c] = TRUE]
    /\ UNCHANGED <<kvars, svars, callers, sources, offered, percents,
                   observing, now, session, Mutex, tvars, cop, ctmp, cpre,
                   carg, cpct, aborted, cbFrame, vf, restartAt, jumped,
                   seekArg>>

\* a lock_guard scope of StopAndExtractWorker that lasts until after the join
UnlockAfterJoin(c) ==
    /\ aborted = "no"
    /\ cpc[c] \in Held
    /\ Mutex = c
    /\ Mutex' = IF cpc[c] = "stopped" THEN c ELSE None
    /\ cpc' = [cpc EXCEPT ![c] = AfterUnlock(cpc[c])]
    /\ cres' = [cres EXCEPT ![c] = ReturnValue(cpc[c])]
    /\ UNCHANGED <<kvars, svars, callers, sources, offered, percents,
                   observing, now, session, tvars, cop, ctmp, cpre, carg, cpct,
                   aborted, hvars, ovars>>

\* the end of a lock_guard scope (also the return from inside one)
Unlock(c) ==
    /\ aborted = "no"
    /\ cpc[c] \in Held
    /\ Mutex = c
    /\ Mutex' = None
    /\ cpc' = [cpc EXCEPT ![c] = AfterUnlock(cpc[c])]
    /\ cres' = [cres EXCEPT ![c] = ReturnValue(cpc[c])]
    /\ UNCHANGED <<kvars, svars, callers, sources, offered, percents,
                   observing, now, session, tvars, cop, ctmp, cpre, carg, cpct,
                   aborted, hvars, ovars>>

\* Close and Pause begin with StopAndExtractWorker
Close(c) ==
    /\ CanCall(c)
    /\ StopAndExtractWorker(c)
    /\ cop' = [cop EXCEPT ![c] = "Close"]
    /\ cpc' = [cpc EXCEPT ![c] = "stopped"]
    /\ cpre' = [cpre EXCEPT ![c] = IsRunning]
    /\ UNCHANGED <<kvars, svars, callers, sources, offered, percents,
                   observing, now, Context, IO, VideoInfo, FormatConverter,
                   Options, StartWallClockUS, CurrentTimeMills, readIdx,
                   decBuf, tvars, carg, cpct, cres, aborted, hvars, ovars>>

Pause(c) ==
    /\ CanCall(c)
    /\ StopAndExtractWorker(c)
    /\ cop' = [cop EXCEPT ![c] = "Pause"]
    /\ cpc' = [cpc EXCEPT ![c] = "stopped"]
    /\ cpre' = [cpre EXCEPT ![c] = IsRunning]
    /\ UNCHANGED <<kvars, svars, callers, sources, offered, percents,
                   observing, now, Context, IO, VideoInfo, FormatConverter,
                   Options, StartWallClockUS, CurrentTimeMills, readIdx,
                   decBuf, tvars, carg, cpct, cres, aborted, hvars, ovars>>

\* where Close, Pause and SeekToPercent continue after the join
AfterJoin(op) ==
    CASE op = "Pause" -> "ret"
      [] op = "Close" -> "close_free"
      [] op = "Seek" -> "seek_do"

\* if (tmp.joinable()) tmp.join(): waits until the thread has returned
Join(c) ==
    /\ aborted = "no"
    /\ cpc[c] = "join"
    /\ IF ctmp[c] = NoThread
       THEN UNCHANGED <<tvars, ctmp>>
       ELSE /\ tpc[ctmp[c]] = "done"
            /\ tpc' = [tpc EXCEPT ![ctmp[c]] = "none"]
            /\ tframe' = [tframe EXCEPT ![ctmp[c]] = NoFrame]
            /\ tstale' = [tstale EXCEPT ![ctmp[c]] = FALSE]
            /\ tstart' = [tstart EXCEPT ![ctmp[c]] = NoTime]
            /\ tpts' = [tpts EXCEPT ![ctmp[c]] = 0]
            /\ tfirst' = [tfirst EXCEPT ![ctmp[c]] = FALSE]
            /\ ctmp' = [ctmp EXCEPT ![c] = NoThread]
    /\ cpc' = [cpc EXCEPT ![c] = AfterJoin(cop[c])]
    /\ cres' = [cres EXCEPT ![c] = TRUE]
    /\ UNCHANGED <<kvars, svars, callers, sources, offered, percents,
                   observing, now, session, Mutex, cop, cpre, carg, cpct,
                   aborted, hvars, ovars>>

\* Close that releases converter, metadata and stream and keeps the context
CloseFreeKeepsContext(c) ==
    /\ At(c, "Close", "close_free")
    /\ Mutex = None
    /\ Mutex' = c
    /\ FormatConverter' = FALSE
    /\ VideoInfo' = FALSE
    /\ IO' = FALSE
    /\ UNCHANGED Context
    /\ readIdx' = 0
    /\ decBuf' = NoFrame
    /\ tstale' = [t \in Threads |-> tstale[t] \/ tpc[t] \in InLoop]
    /\ infoDuration' = NoTime
    /\ cpc' = [cpc EXCEPT ![c] = "close_freed"]
    /\ UNCHANGED <<kvars, svars, callers, sources, offered, percents,
                   observing, now, Options, StartWallClockUS, CurrentTimeMills,
                   IsRunning, Worker, tpc, tframe, lvars, cop, ctmp, cpre,
                   carg, cpct, cres, aborted, hvars, cbFrame, vf, restartAt,
                   jumped, seekArg>>

\* Close, after the join: release converter, metadata, stream and context
CloseFree(c) ==
    /\ At(c, "Close", "close_free")
    /\ Mutex = None
    /\ Mutex' = c
    /\ FormatConverter' = FALSE
    /\ VideoInfo' = FALSE
    /\ IO' = FALSE
    /\ Context' = NoContext
    /\ readIdx' = 0
    /\ decBuf' = NoFrame
    /\ tstale' = [t \in Threads |-> tstale[t] \/ tpc[t] \in InLoop]
    /\ infoDuration' = NoTime
    /\ cpc' = [cpc EXCEPT ![c] = "close_freed"]
    /\ UNCHANGED <<kvars, svars, callers, sources, offered, percents,
                   observing, now, Options, StartWallClockUS, CurrentTimeMills,
                   IsRunning, Worker, tpc, tframe, lvars, cop, ctmp, cpre,
                   carg, cpct, cres, aborted, hvars, cbFrame, vf, restartAt,
                   jumped, seekArg>>

\* Resume: the check of player->Context made before the lock is taken
ResumeCheck(c) ==
    /\ CanCall(c)
    /\ cop' = [cop EXCEPT ![c] = "Resume"]
    /\ cpre' = [cpre EXCEPT ![c] = IsRunning]
    /\ cpc' = [cpc EXCEPT ![c] = IF Context.open THEN "resume_lock" ELSE "ret"]
    /\ cres' = [cres EXCEPT ![c] = FALSE]
    /\ UNCHANGED <<kvars, svars, callers, sources, offered, percents,
                   observing, now, session, Mutex, tvars, ctmp, carg, cpct,
                   aborted, hvars, ovars>>

\* Resume that recomputes the wall clock baseline before it tests the flag
ResumeLockedRebase(c) ==
    /\ At(c, "Resume", "resume_lock")
    /\ Mutex = None
    /\ IF ~IsRunning /\ Joinable(Worker)
       THEN Crash("worker_overwritten")
       ELSE /\ Mutex' = c
            /\ StartWallClockUS' =
                  Observed(StartWallClockUS, Baseline(CurrentTimeMills))
            /\ IF IsRunning
               THEN /\ cpc' = [cpc EXCEPT ![c] = "resume_fail"]
                    /\ UNCHANGED <<IsRunning, Worker, tvars, aborted>>
               ELSE /\ IsRunning' = TRUE
                    /\ SpawnWorker
                    /\ cpc' = [cpc EXCEPT ![c] = "resume_ok"]
            /\ UNCHANGED <<kvars, svars, callers, sources, offered, percents,
                           observing, now, Context, IO, VideoInfo,
                           FormatConverter, Options, CurrentTimeMills, readIdx,
                           decBuf, cop, ctmp, cpre, carg, cpct, cres, hvars,
                           ovars>>

\* Resume under the lock: refuse when running, else start the worker
ResumeLocked(c) ==
    /\ At(c, "Resume", "resume_lock")
    /\ Mutex = None
    /\ IF ~IsRunning /\ Joinable(Worker)
       THEN Crash("worker_overwritten")
       ELSE /\ Mutex' = c
            /\ IF IsRunning
               THEN /\ cpc' = [cpc EXCEPT ![c] = "resume_fail"]
                    /\ UNCHANGED <<StartWallClockUS, IsRunning, Worker, tvars,
                                   aborted>>
               ELSE /\ StartWallClockUS' =
                          Observed(StartWallClockUS, Baseline(CurrentTimeMills))
                    /\ IsRunning' = TRUE
                    /\ SpawnWorker
                    /\ cpc' = [cpc EXCEPT ![c] = "resume_ok"]
            /\ UNCHANGED <<kvars, svars, callers, sources, offered, percents,
                           observing, now, Context, IO, VideoInfo,
                           FormatConverter, Options, CurrentTimeMills, readIdx,
                           decBuf, cop, ctmp, cpre, carg, cpct, cres, hvars,
                           ovars>>

\* SeekToPercent: the check of player->Context and the clamp
SeekCheck(c, pnum) ==
    /\ CanCall(c)
    /\ pnum \in percents
    /\ cop' = [cop EXCEPT ![c] = "Seek"]
    /\ cpre' = [cpre EXCEPT ![c] = IsRunning]
    /\ cpct' = [cpct EXCEPT ![c] =
                   IF Context.open THEN ClampPercent(pnum) ELSE 0]
    /\ cpc' = [cpc EXCEPT ![c] = IF Context.open THEN "seek_stop" ELSE "ret"]
    /\ cres' = [cres EXCEPT ![c] = FALSE]
    /\ seekArg' = [seekArg EXCEPT ![c] = Observed(seekArg[c], pnum)]
    /\ UNCHANGED <<kvars, svars, callers, sources, offered, percents,
                   observing, now, session, Mutex, tvars, ctmp, carg, aborted,
                   hvars, cbFrame, vf, restartAt, jumped, infoDuration>>

\* SeekToPercent: StopAndExtractWorker
SeekStop(c) ==
    /\ At(c, "Seek", "seek_stop")
    /\ StopAndExtractWorker(c)
    /\ cpc' = [cpc EXCEPT ![c] = "stopped"]
    /\ UNCHANGED <<kvars, svars, callers, sources, offered, percents,
                   observing, now, Context, IO, VideoInfo, FormatConverter,
                   Options, StartWallClockUS, CurrentTimeMills, readIdx,
                   decBuf, tvars, cop, cpre, carg, cpct, cres, aborted, hvars,
                   ovars>>

\* SeekToPercent, the seek under the lock: find the duration, flush the
\* decoder, seek the engine (seekOk: av_seek_frame succeeded), store the
\* position.  player->Context is dereferenced without a null check.
SeekDo(c, seekOk) ==
    /\ At(c, "Seek", "seek_do")
    /\ Mutex = None
    /\ IF ~Context.open
       THEN Crash("fault")
       ELSE /\ Mutex' = c
            /\ IF SeekDuration(Context) <= 0
               THEN /\ cpc' = [cpc EXCEPT ![c] = "seek_fail"]
                    /\ UNCHANGED <<CurrentTimeMills, StartWallClockUS, readIdx,
                                   decBuf>>
               ELSE LET target_us ==
                            (SeekDuration(Context) * cpct[c]) \div PercentDen
                    IN /\ decBuf' = NoFrame
                       /\ IF seekOk
                          THEN /\ readIdx' = SeekIndex(Context, target_us)
                               /\ CurrentTimeMills' = target_us \div 1000
                               /\ StartWallClockUS' =
                                     Observed(StartWallClockUS,
                                              BaselineUs(target_us))
                               /\ cpc' = [cpc EXCEPT ![c] = "seek_done"]
                          ELSE /\ cpc' = [cpc EXCEPT ![c] = "seek_fail"]
                               /\ UNCHANGED <<CurrentTimeMills,
                                              StartWallClockUS, readIdx>>
            /\ UNCHANGED <<kvars, svars, callers, sources, offered, percents,
                           observing, now, Context, IO, VideoInfo,
                           FormatConverter, Options, IsRunning, Worker, tvars,
                           cop, ctmp, cpre, carg, cpct, cres, aborted, hvars,
                           ovars>>

\* SeekToPercent, last lock_guard scope: restart the worker if not running
SeekRestart(c) ==
    /\ At(c, "Seek", "seek_restart")
    /\ Mutex = None
    /\ IF ~IsRunning /\ Joinable(Worker)
       THEN Crash("worker_overwritten")
       ELSE /\ Mutex' = c
            /\ IF ~IsRunning
               THEN IsRunning' = TRUE /\ SpawnWorker
               ELSE UNCHANGED <<IsRunning, Worker, tvars, aborted>>
            /\ cpc' = [cpc EXCEPT ![c] = "seek_restarted"]
            /\ UNCHANGED <<kvars, svars, callers, sources, offered, percents,
                           observing, now, Context, IO, VideoInfo,
                           FormatConverter, Options, StartWallClockUS,
                           CurrentTimeMills, readIdx, decBuf, cop, ctmp, cpre,
                           carg, cpct, cres, hvars, ovars>>

\* the operation has returned; the caller is free to issue the next one
Return(c) ==
    /\ aborted = "no"
    /\ cpc[c] = "ret"
    /\ cpc' = [cpc EXCEPT ![c] = "idle"]
    /\ cop' = [cop EXCEPT ![c] = "none"]
    /\ cpre' = [cpre EXCEPT ![c] = FALSE]
    /\ carg' = [carg EXCEPT ![c] = "none"]
    /\ cpct' = [cpct EXCEPT ![c] = 0]
    /\ cres' = [cres EXCEPT ![c] = FALSE]
    /\ infoCalls' = [infoCalls EXCEPT ![c] = 0]
    /\ seekArg' = [seekArg EXCEPT ![c] = 0]
    /\ UNCHANGED <<kvars, svars, callers, sources, offered, percents,
                   observing, now, session, Mutex, tvars, ctmp, aborted,
                   earlyFrame, cbFrame, vf, restartAt, jumped, infoDuration>>

(* --------------------- decode thread: LoopPlay ------------------------ *)

\* first lock_guard scope: without a context clear the flag and return
LoopPlayEntry(t) ==
    /\ aborted = "no"
    /\ tpc[t] = "start"
    /\ Mutex = None
    /\ IF ~Context.open
       THEN IsRunning' = FALSE /\ tpc' = [tpc EXCEPT ![t] = "done"]
       ELSE UNCHANGED IsRunning /\ tpc' = [tpc EXCEPT ![t] = "copy"]
    /\ UNCHANGED <<kvars, svars, callers, sources, offered, percents,
                   observing, now, Context, IO, VideoInfo, FormatConverter,
                   Options, StartWallClockUS, CurrentTimeMills, Worker,
                   readIdx, decBuf, Mutex, tframe, tstale, lvars, cvars,
                   aborted, hvars, ovars>>

\* second lock_guard scope: copy fmt, stream and codecCtx out of Context
\* (dereferenced without a null check), then read Context->videoStreamIdx
\* and compute the initial baseline from the known position
LoopPlayCopy(t) ==
    /\ aborted = "no"
    /\ tpc[t] = "copy"
    /\ Mutex = None
    /\ IF ~Context.open
       THEN Crash("fault")
       ELSE /\ tpc' = [tpc EXCEPT ![t] = "poll"]
            /\ tstart' = [tstart EXCEPT ![t] =
                             IF CurrentTimeMills > 0
                             THEN Baseline(CurrentTimeMills)
                             ELSE NoTime]
            /\ tfirst' = [tfirst EXCEPT ![t] = Observed(tfirst[t], TRUE)]
            /\ restartAt' = NoTime
            /\ jumped' = FALSE
            /\ UNCHANGED <<kvars, svars, callers, sources, offered, percents,
                           observing, now, session, Mutex, tframe, tstale,
                           tpts, cvars, aborted, hvars, cbFrame, vf,
                           infoDuration, seekArg>>

\* while (IsRunning.load()) is false: free packet and frame, return
LoopExit(t) ==
    /\ aborted = "no"
    /\ tpc[t] = "poll"
    /\ ~IsRunning
    /\ tpc' = [tpc EXCEPT ![t] = "done"]
    /\ tstart' = [tstart EXCEPT ![t] = NoTime]
    /\ tfirst' = [tfirst EXCEPT ![t] = FALSE]
    /\ UNCHANGED <<kvars, svars, callers, sources, offered, percents,
                   observing, now, session, Mutex, tframe, tstale, tpts, cvars,
                   aborted, hvars, ovars>>

\* av_read_frame returns AVERROR_EOF: seek to the start, flush, continue
ReadEof(t) ==
    /\ aborted = "no"
    /\ tpc[t] = "poll"
    /\ IsRunning
    /\ ~tstale[t]
    /\ readIdx = Context.nframes
    /\ readIdx' = 0
    /\ decBuf' = NoFrame
    /\ restartAt' = Observed(restartAt, now)
    /\ jumped' = Observed(jumped, TRUE)
    /\ UNCHANGED <<kvars, svars, callers, sources, offered, percents,
                   observing, now, Context, IO, VideoInfo, FormatConverter,
                   Options, StartWallClockUS, CurrentTimeMills, IsRunning,
                   Worker, Mutex, tvars, cvars, aborted, hvars, cbFrame, vf,
                   infoDuration, seekArg>>

\* a read fault that ends the decode loop instead of backing off
ReadErrorExits(t) ==
    /\ aborted = "no"
    /\ tpc[t] = "poll"
    /\ IsRunning
    /\ tpc' = [tpc EXCEPT ![t] = "done"]
    /\ UNCHANGED <<kvars, svars, callers, sources, offered, percents,
                   observing, now, session, Mutex, tframe, tstale, lvars,
                   cvars, aborted, hvars, ovars>>

\* av_read_frame returns another negative value: sleep 5 ms and continue
ReadError(t) ==
    /\ aborted = "no"
    /\ tpc[t] = "poll"
    /\ IsRunning
    /\ tpc' = [tpc EXCEPT ![t] = "backoff"]
    /\ UNCHANGED <<kvars, svars, callers, sources, offered, percents,
                   observing, now, session, Mutex, tframe, tstale, lvars,
                   cvars, aborted, hvars, ovars>>

\* av_usleep(1000 * 5) returns: back to the loop condition
Backoff(t) ==
    /\ aborted = "no"
    /\ tpc[t] = "backoff"
    /\ tpc' = [tpc EXCEPT ![t] = "poll"]
    /\ UNCHANGED <<kvars, svars, callers, sources, offered, percents,
                   observing, now, session, Mutex, tframe, tstale, lvars,
                   cvars, aborted, hvars, ovars>>

\* av_read_frame returns a packet; avcodec_send_packet takes it (sendOk)
\* or fails, in which case the packet is released and skipped
ReadPacket(t, sendOk) ==
    /\ aborted = "no"
    /\ tpc[t] = "poll"
    /\ IsRunning
    /\ ~tstale[t]
    /\ readIdx < Context.nframes
    /\ readIdx' = readIdx + 1
    /\ IF sendOk
       THEN decBuf' = readIdx /\ tpc' = [tpc EXCEPT ![t] = "recv"]
       ELSE UNCHANGED <<decBuf, tpc>>
    /\ UNCHANGED <<kvars, svars, callers, sources, offered, percents,
                   observing, now, Context, IO, VideoInfo, FormatConverter,
                   Options, StartWallClockUS, CurrentTimeMills, IsRunning,
                   Worker, Mutex, tframe, tstale, lvars, cvars, aborted, hvars,
                   ovars>>

\* the later of two times
Later(a, b) == IF a >= b THEN a ELSE b
\* the earlier of two times
Earlier(a, b) == IF a <= b THEN a ELSE b

\* avcodec_receive_frame followed by a pacing rule that drops a frame
\* whose deadline has passed instead of delivering it
ReceiveFrameDropLate(t) ==
    /\ aborted = "no"
    /\ tpc[t] = "recv"
    /\ IF decBuf = NoFrame \/ tstale[t]
       THEN /\ tpc' = [tpc EXCEPT ![t] = "poll"]
            /\ UNCHANGED <<decBuf, tframe, tstart, tpts, cbFrame, vf>>
       ELSE /\ decBuf' = NoFrame
            /\ tstart' = [tstart EXCEPT ![t] =
                             IF tstart[t] >= 0 THEN tstart[t]
                             ELSE Baseline(CurrentTimeMills)]
            /\ cbFrame' = NoFrame
            /\ vf' = NoVideoFrame
            /\ IF tstart'[t] + PtsUs(Context, decBuf) < now
               THEN UNCHANGED <<tframe, tpts, tpc>>
               ELSE /\ tframe' = [tframe EXCEPT ![t] = decBuf]
                    /\ tpts' = [tpts EXCEPT ![t] = PtsUs(Context, decBuf)]
                    /\ tpc' = [tpc EXCEPT ![t] = "pace"]
    /\ UNCHANGED <<kvars, svars, callers, sources, offered, percents,
                   observing, now, Context, IO, VideoInfo, FormatConverter,
                   Options, StartWallClockUS, CurrentTimeMills, IsRunning,
                   Worker, readIdx, Mutex, tstale, tfirst, cvars, aborted,
                   hvars, restartAt, jumped, infoDuration, seekArg>>

\* avcodec_receive_frame followed by a store of the position made before
\* the pacing wait
ReceiveFramePublishEarly(t) ==
    /\ aborted = "no"
    /\ tpc[t] = "recv"
    /\ IF decBuf = NoFrame \/ tstale[t]
       THEN /\ tpc' = [tpc EXCEPT ![t] = "poll"]
            /\ UNCHANGED <<decBuf, tframe, tstart, tpts, cbFrame, vf,
                           CurrentTimeMills>>
       ELSE /\ tframe' = [tframe EXCEPT ![t] = decBuf]
            /\ decBuf' = NoFrame
            /\ tpts' = [tpts EXCEPT ![t] = PtsUs(Context, decBuf)]
            /\ tstart' = [tstart EXCEPT ![t] =
                             IF tstart[t] >= 0 THEN tstart[t]
                             ELSE Baseline(CurrentTimeMills)]
            /\ CurrentTimeMills' = PtsMs(Context, decBuf)
            /\ cbFrame' = NoFrame
            /\ vf' = NoVideoFrame
            /\ tpc' = [tpc EXCEPT ![t] = "pace"]
    /\ UNCHANGED <<kvars, svars, callers, sources, offered, percents,
                   observing, now, Context, IO, VideoInfo, FormatConverter,
                   Options, StartWallClockUS, IsRunning, Worker, readIdx,
                   Mutex, tstale, tfirst, cvars, aborted, hvars, restartAt,
                   jumped, infoDuration, seekArg>>

\* avcodec_receive_frame: without a frame leave the inner loop; with one,
\* compute pts_us, set the baseline if there is none yet and, if the frame
\* is early, start to sleep until its deadline start_time_us + pts_us
ReceiveFrame(t) ==
    /\ aborted = "no"
    /\ tpc[t] = "recv"
    /\ IF decBuf = NoFrame \/ tstale[t]
       THEN /\ tpc' = [tpc EXCEPT ![t] = "poll"]
            /\ UNCHANGED <<decBuf, tframe, tstart, tpts, cbFrame, vf>>
       ELSE /\ tframe' = [tframe EXCEPT ![t] = decBuf]
            /\ decBuf' = NoFrame
            /\ tpts' = [tpts EXCEPT ![t] = PtsUs(Context, decBuf)]
            /\ tstart' = [tstart EXCEPT ![t] =
                             IF tstart[t] >= 0 THEN tstart[t]
                             ELSE Baseline(CurrentTimeMills)]
            /\ cbFrame' = NoFrame
            /\ vf' = NoVideoFrame
            /\ tpc' = [tpc EXCEPT ![t] = "pace"]
    /\ UNCHANGED <<kvars, svars, callers, sources, offered, percents,
                   observing, now, Context, IO, VideoInfo, FormatConverter,
                   Options, StartWallClockUS, CurrentTimeMills, IsRunning,
                   Worker, readIdx, Mutex, tstale, tfirst, cvars, aborted,
                   hvars, restartAt, jumped, infoDuration, seekArg>>

\* the deadline of the frame thread t holds, as far as the clock is tracked
Deadline(t) == Earlier(tstart[t] + tpts[t], Horizon)

\* a pacing step that publishes without waiting for the deadline
PublishAtOnce(t) ==
    /\ aborted = "no"
    /\ tpc[t] = "pace"
    /\ CurrentTimeMills' = tpts[t] \div 1000
    /\ tfirst' = [tfirst EXCEPT ![t] = FALSE]
    /\ jumped' = FALSE
    /\ tpc' = [tpc EXCEPT ![t] = "cb"]
    /\ UNCHANGED <<kvars, svars, callers, sources, offered, percents,
                   observing, now, Context, IO, VideoInfo, FormatConverter,
                   Options, StartWallClockUS, IsRunning, Worker, readIdx,
                   decBuf, Mutex, tframe, tstale, tstart, tpts, cvars, aborted,
                   hvars, cbFrame, vf, restartAt, infoDuration, seekArg>>

\* the pacing sleep, if any, is over: publish the position of the frame
Publish(t) ==
    /\ aborted = "no"
    /\ tpc[t] = "pace"
    /\ now >= Deadline(t)
    /\ CurrentTimeMills' = tpts[t] \div 1000
    /\ tfirst' = [tfirst EXCEPT ![t] = FALSE]
    /\ jumped' = FALSE
    /\ tpc' = [tpc EXCEPT ![t] = "cb"]
    /\ UNCHANGED <<kvars, svars, callers, sources, offered, percents,
                   observing, now, Context, IO, VideoInfo, FormatConverter,
                   Options, StartWallClockUS, IsRunning, Worker, readIdx,
                   decBuf, Mutex, tframe, tstale, tstart, tpts, cvars, aborted,
                   hvars, cbFrame, vf, restartAt, infoDuration, seekArg>>

\* an Open has started its thread and not yet made its metadata callback
MetadataPending ==
    \E c \in AllCallers :
        /\ cop[c] = "Open"
        /\ cpc[c] \in {"open_spawned", "open_info"}
        /\ Options.VideoInfoCallback

\* FormatConverter::FormatConverter: the size of the converted picture,
\* static_cast<int>(dim * scale) if scale > 0 and scale != 1.0f, else dim
DistDim(dim, scale) ==
    IF scale > 0 /\ scale # ScaleDen THEN (dim * scale) \div ScaleDen ELSE dim
\* the converter Open makes for a session: its source size is the
\* context's actualFrameWidth x actualFrameHeight, its target size that
\* size scaled by FrameScale (the size of convertedFrame)
MakeConverter(ctx, opts) ==
    [srcWidth |-> ctx.actualFrameWidth, srcHeight |-> ctx.actualFrameHeight,
     distWidth |-> DistDim(ctx.actualFrameWidth, opts.FrameScale),
     distHeight |-> DistDim(ctx.actualFrameHeight, opts.FrameScale)]

\* processDecodedVideoFrame: the VideoFrame made from a decoded frame
\* (with the size of the decoded frame and the session's converter).
\* The frame goes through FormatConverter::Convert unless its format is
\* RGBA or BGRA and FrameScale is 1.0f; the rotation is 0 - videoRotation,
\* plus 360 if that is negative.
processDecodedVideoFrame(ctx, opts) ==
    LET rotate == 0 - ctx.videoRotation
    IN  [AvFrame |-> IF (ctx.videoFormat # "RGBA" /\ ctx.videoFormat # "BGRA")
                        \/ opts.FrameScale # ScaleDen
                     THEN "convertedFrame" ELSE "frame",
         Rotation |-> IF rotate >= 0 THEN rotate ELSE 360 + rotate,
         Width |-> ctx.actualFrameWidth, Height |-> ctx.actualFrameHeight,
         format |-> ctx.videoFormat, FrameScale |-> opts.FrameScale,
         videoRotation |-> ctx.videoRotation,
         originWidth |-> ctx.originWidth, originHeight |-> ctx.originHeight,
         FormatConverter |-> MakeConverter(ctx, opts)]

\* processDecodedVideoFrame: hand the frame to Options.FrameCallback
DeliverFrame(t) ==
    /\ aborted = "no"
    /\ tpc[t] = "cb"
    /\ earlyFrame' = Observed(earlyFrame,
                              earlyFrame \/ (/\ Context.open
                                             /\ Options.FrameCallback
                                             /\ MetadataPending))
    /\ cbFrame' = IF Context.open /\ Options.FrameCallback
                  THEN Observed(cbFrame, tframe[t]) ELSE cbFrame
    /\ vf' = IF Context.open /\ Options.FrameCallback
             THEN Observed(vf, processDecodedVideoFrame(Context, Options))
             ELSE vf
    /\ tframe' = [tframe EXCEPT ![t] = NoFrame]
    /\ tpts' = [tpts EXCEPT ![t] = 0]
    /\ tpc' = [tpc EXCEPT ![t] = "recv"]
    /\ UNCHANGED <<kvars, svars, callers, sources, offered, percents,
                   observing, now, session, Mutex, tstale, tstart, tfirst,
                   cvars, aborted, infoCalls, restartAt, jumped, infoDuration,
                   seekArg>>

(* ----------------------- undefined behaviour -------------------------- *)

\* the engine is used by two threads at once, or after it was freed
EngineRace ==
    \/ \E t \in Threads : tstale[t] /\ tpc[t] \in InLoop
    \/ \E t, u \in Threads : t # u /\ tpc[t] \in InLoop /\ tpc[u] \in InLoop
    \/ \E c \in AllCallers, t \in Threads :
          cpc[c] \in {"seek_done", "seek_fail"} /\ tpc[t] \in InLoop

\* one outcome of such a use is a crash of the process; the other, taken
\* by the steps above, is that each engine call runs as if alone
Fault ==
    /\ aborted = "no"
    /\ EngineRace
    /\ Crash("fault")

(* ---------------------------- byte streams ---------------------------- *)
(* src/src/video_stream.cpp: the two IVideoStream classes.  A stream is   *)
(* used by one thread at a time; its constructor and each of its member   *)
(* functions is one step.  The operating system side of a path or         *)
(* descriptor is the record file: its kind, its offset (the position of   *)
(* the next read) and probe, the first lseek (tellg) of the constructor's *)
(* probe that failed (0: none did).                                       *)

\* the bytes of the medium: byte i of the file, or i-th byte of the pipe
Byte(i) == 65 + i
\* what reading len bytes at offset off yields: the bytes up to the end
Bytes(off, len) ==
    LET n == IF off >= FileLen THEN 0
             ELSE IF len < FileLen - off THEN len ELSE FileLen - off
    IN  [j \in 1..n |-> Byte(off + j - 1)]
AVERROR(e) == 0 - e
\* the record of a call of Read (arg: len) or Seek (arg: offset): what it
\* returned, for a Read the bytes it stored and the stream position at
\* which the caller asked for them; seen keeps, per position, the byte the
\* first Read at that position stored, reread says that this Read stored
\* a byte at a position read before
Result(op, arg, whence, ret, data, at) ==
    [op |-> op, arg |-> arg, whence |-> whence, ret |-> ret, data |-> data,
     at |-> at,
     seen |-> [p \in 0..(FileLen - 1) |->
                  IF ioResult.seen[p] = NoByte /\ p >= at /\ p < at + Len(data)
                  THEN data[p - at + 1] ELSE ioResult.seen[p]],
     reread |-> \E p \in 0..(FileLen - 1) :
                  ioResult.seen[p] # NoByte /\ p >= at /\ p < at + Len(data)]

\* lseek64(fd, offset, whence) / seekg(offset, dir) on the current file:
\* the new offset, or -1 (a pipe, or a position before the start)
lseek(offset, whence) ==
    LET pos == CASE whence = SEEK_SET -> offset
                 [] whence = SEEK_CUR -> file.offset + offset
                 [] whence = SEEK_END -> FileLen + offset
                 [] OTHER -> 0 - 1
    IN  IF file.kind = "pipe" \/ pos < 0 THEN 0 - 1 ELSE pos

\* IVideoStream::Seekable
Seekable(s) ==
    IF s.class = "VideoFileStream" THEN TRUE ELSE s.valid /\ s.seekable
\* IVideoStream::SizeInBytes
SizeInBytes(s) == s.file_size

\* positions a Seek of the model may move to
MaxPos == FileLen + 1
Lengths == 0..(FileLen + 1)
Offsets == (0 - 1)..(FileLen + 1)
Whences == {SEEK_SET, SEEK_CUR, SEEK_END, AVSEEK_SIZE, SEEK_END + 1}
ProbeSteps == 1..5

\* VideoFileStream::VideoFileStream(path): opened says whether the file
\* could be opened, told whether tellg() at its end succeeded
VideoFileStream(opened, told) ==
    /\ stream = NoStream
    /\ stream' =
          [class |-> "VideoFileStream",
           input |-> IF opened THEN "good" ELSE "closed",
           read_position |-> 0,
           file_size |-> IF opened /\ told THEN FileLen ELSE 0]
    /\ file' = [kind |-> IF opened THEN "file" ELSE "none", offset |-> 0,
                probe |-> IF opened /\ ~told THEN 1 ELSE 0]
    /\ ioResult' = NoResult
    /\ UNCHANGED <<kvars, callers, sources, offered, percents, observing, now,
                   session, Mutex, tvars, cvars, aborted, hvars, ovars>>

\* VideoFileStream::Read(data, len)
FileRead(len) ==
    /\ stream.class = "VideoFileStream"
    /\ IF stream.input = "closed" \/ len <= 0
       THEN ioResult' = Result("Read", len, 0, 0 - 1, <<>>, file.offset)
            /\ UNCHANGED <<stream, file>>
       ELSE IF stream.input \in {"eof", "fail"}
       THEN ioResult' = Result("Read", len, 0, 0, <<>>, file.offset)
            /\ UNCHANGED <<stream, file>>
       ELSE LET got == Bytes(file.offset, len)
            IN  /\ ioResult' =
                         Result("Read", len, 0, Len(got), got, file.offset)
                /\ file' = [file EXCEPT !.offset = @ + Len(got)]
                /\ stream' = [stream EXCEPT
                                 !.input = IF Len(got) < len THEN "eof" ELSE @]
    /\ UNCHANGED <<kvars, callers, sources, offered, percents, observing, now,
                   session, Mutex, tvars, cvars, aborted, hvars, ovars>>

\* VideoFileStream::Seek(offset, whence)
FileSeek(offset, whence) ==
    /\ stream.class = "VideoFileStream"
    /\ stream.input # "closed" => lseek(offset, whence) <= MaxPos
    /\ IF stream.input = "closed"
       THEN ioResult' = Result("Seek", offset, whence, 0 - 1, <<>>, 0)
            /\ UNCHANGED <<stream, file>>
       ELSE IF whence = AVSEEK_SIZE
       THEN ioResult' =
                  Result("Seek", offset, whence, stream.file_size, <<>>, 0)
            /\ UNCHANGED <<stream, file>>
       ELSE IF whence \notin {SEEK_SET, SEEK_CUR, SEEK_END}
       THEN /\ ioResult' = Result("Seek", offset, whence, 0 - 1, <<>>, 0)
            /\ stream' = [stream EXCEPT !.input = "good"]
            /\ UNCHANGED file
       ELSE IF lseek(offset, whence) < 0
       THEN /\ ioResult' = Result("Seek", offset, whence, 0 - 1, <<>>, 0)
            /\ stream' = [stream EXCEPT !.input = "fail"]
            /\ UNCHANGED file
       ELSE /\ ioResult' =
                  Result("Seek", offset, whence, lseek(offset, whence), <<>>, 0)
            /\ stream' = [stream EXCEPT !.input = "good"]
            /\ file' = [file EXCEPT !.offset = lseek(offset, whence)]
    /\ UNCHANGED <<kvars, callers, sources, offered, percents, observing, now,
                   session, Mutex, tvars, cvars, aborted, hvars, ovars>>

\* VideoFileDescriptorStream::VideoFileDescriptorStream(fd) on a descriptor
\* of the given kind ("bad": negative or not open) whose offset is k.
\* failAt is the first lseek of the probe that fails (1: query the offset,
\* 2: move forward, 3: move back, 4: query the end, 5: return; 0: none;
\* on a pipe the first), again says that the next lseek fails as well.
\* ioResult records the call and, in at, the offset the descriptor had.
VideoFileDescriptorStream(kind, k, failAt, again) ==
    LET members == [class |-> "VideoFileDescriptorStream", valid |-> FALSE,
                    seekable |-> TRUE, read_position |-> 0,
                    file_size |-> 0 - 1]
        failed == IF kind = "pipe" THEN 1 ELSE failAt
        original_pos == k
        forward_pos == k + test_offset
        end_pos == FileLen
    IN  /\ stream = NoStream
        /\ kind = "bad" => k = 0 /\ failAt = 0 /\ ~again
        /\ kind = "pipe" => k = 0 /\ failAt = 1 /\ ~again
        /\ failAt \in {0, 1, 2, 3, 5} => ~again
        /\ ioResult' = [NoResult EXCEPT !.op = "VideoFileDescriptorStream",
                                        !.at = k]
        /\ IF kind = "bad"
           THEN /\ stream' = members
                /\ file' = [kind |-> kind, offset |-> 0, probe |-> 0]
           ELSE IF failed = 1
           THEN /\ stream' = [members EXCEPT !.valid = TRUE,
                                             !.seekable = FALSE]
                /\ file' = [kind |-> kind, offset |-> k, probe |-> failed]
           ELSE IF failed = 2
           THEN /\ stream' = [members EXCEPT !.valid = TRUE,
                                             !.seekable = FALSE,
                                             !.read_position = original_pos]
                /\ file' = [kind |-> kind, offset |-> k, probe |-> failed]
           ELSE IF failed = 3
           THEN /\ stream' = [members EXCEPT !.valid = TRUE,
                                             !.seekable = FALSE,
                                             !.read_position = forward_pos]
                /\ file' = [kind |-> kind, offset |-> forward_pos,
                            probe |-> failed]
           ELSE IF failed = 4
           THEN /\ stream' = [members EXCEPT !.valid = TRUE,
                                             !.seekable = TRUE,
                                             !.read_position = original_pos]
                /\ file' = [kind |-> kind, offset |-> original_pos,
                            probe |-> failed]
           ELSE IF failed = 5
           THEN /\ stream' = [members EXCEPT !.valid = TRUE,
                                             !.seekable = TRUE,
                                             !.file_size = end_pos,
                                             !.read_position = end_pos]
                /\ file' = [kind |-> kind, offset |-> end_pos,
                            probe |-> failed]
           ELSE /\ stream' = [members EXCEPT !.valid = TRUE,
                                             !.seekable = TRUE,
                                             !.file_size = end_pos,
                                             !.read_position = original_pos]
                /\ file' = [kind |-> kind, offset |-> original_pos,
                            probe |-> 0]
        /\ UNCHANGED <<kvars, callers, sources, offered, percents, observing,
                       now, session, Mutex, tvars, cvars, aborted, hvars,
                       ovars>>

\* a Read that does not account for the bytes it stored
FdReadUncounted(len, err) ==
    /\ stream.class = "VideoFileDescriptorStream"
    /\ IF ~stream.valid
       THEN ioResult' =
                  Result("Read", len, 0, AVERROR(EBADF), <<>>,
                         stream.read_position)
            /\ UNCHANGED <<stream, file>>
       ELSE IF len <= 0
       THEN ioResult' =
                  Result("Read", len, 0, AVERROR(EINVAL), <<>>,
                         stream.read_position)
            /\ UNCHANGED <<stream, file>>
       ELSE IF err # 0
       THEN /\ ioResult' =
                     Result("Read", len, 0, AVERROR(err), <<>>,
                            stream.read_position)
            /\ stream' = [stream EXCEPT
                             !.valid = IF err = EBADF THEN FALSE ELSE @]
            /\ UNCHANGED file
       ELSE LET got == Bytes(file.offset, len)
            IN  /\ ioResult' =
                         Result("Read", len, 0, Len(got), got,
                                stream.read_position)
                /\ file' = [file EXCEPT !.offset = @ + Len(got)]
                /\ UNCHANGED stream
    /\ UNCHANGED <<kvars, callers, sources, offered, percents, observing, now,
                   session, Mutex, tvars, cvars, aborted, hvars, ovars>>

\* VideoFileDescriptorStream::Read(data, len); err is the errno of a
\* read(2) that fails (EINTR is retried inside), 0 if it succeeds
FdRead(len, err) ==
    /\ stream.class = "VideoFileDescriptorStream"
    /\ IF ~stream.valid
       THEN ioResult' =
                  Result("Read", len, 0, AVERROR(EBADF), <<>>,
                         stream.read_position)
            /\ UNCHANGED <<stream, file>>
       ELSE IF len <= 0
       THEN ioResult' =
                  Result("Read", len, 0, AVERROR(EINVAL), <<>>,
                         stream.read_position)
            /\ UNCHANGED <<stream, file>>
       ELSE IF err # 0
       THEN /\ ioResult' =
                     Result("Read", len, 0, AVERROR(err), <<>>,
                            stream.read_position)
            /\ stream' = [stream EXCEPT
                             !.valid = IF err = EBADF THEN FALSE ELSE @]
            /\ UNCHANGED file
       ELSE LET got == Bytes(file.offset, len)
            IN  /\ ioResult' =
                         Result("Read", len, 0, Len(got), got,
                                stream.read_position)
                /\ file' = [file EXCEPT !.offset = @ + Len(got)]
                /\ stream' = [stream EXCEPT !.read_position = @ + Len(got)]
    /\ UNCHANGED <<kvars, callers, sources, offered, percents, observing, now,
                   session, Mutex, tvars, cvars, aborted, hvars, ovars>>

\* VideoFileDescriptorStream::Seek(offset, whence); err is the errno of an
\* lseek that fails for a reason of its own, 0 if there is none
FdSeek(offset, whence, err) ==
    /\ stream.class = "VideoFileDescriptorStream"
    /\ Seekable(stream) => lseek(offset, whence) <= MaxPos
    /\ IF ~stream.valid
       THEN ioResult' = Result("Seek", offset, whence, AVERROR(EBADF), <<>>, 0)
            /\ UNCHANGED <<stream, file>>
       ELSE IF whence = AVSEEK_SIZE
       THEN ioResult' =
                  Result("Seek", offset, whence, stream.file_size, <<>>, 0)
            /\ UNCHANGED <<stream, file>>
       ELSE IF ~stream.seekable
       THEN ioResult' = Result("Seek", offset, whence, AVERROR(ENOSYS), <<>>, 0)
            /\ UNCHANGED <<stream, file>>
       ELSE IF whence \notin {SEEK_SET, SEEK_CUR, SEEK_END}
       THEN ioResult' = Result("Seek", offset, whence, AVERROR(EINVAL), <<>>, 0)
            /\ UNCHANGED <<stream, file>>
       ELSE IF err # 0 \/ lseek(offset, whence) < 0
       THEN /\ ioResult' =
                  Result("Seek", offset, whence,
                         AVERROR(IF err # 0 THEN err ELSE EINVAL), <<>>, 0)
            /\ stream' = [stream EXCEPT
                             !.valid = IF err = EBADF THEN FALSE ELSE @]
            /\ UNCHANGED file
       ELSE /\ ioResult' =
                  Result("Seek", offset, whence, lseek(offset, whence), <<>>, 0)
            /\ stream' = [stream EXCEPT
                             !.read_position = lseek(offset, whence)]
            /\ file' = [file EXCEPT !.offset = lseek(offset, whence)]
    /\ UNCHANGED <<kvars, callers, sources, offered, percents, observing, now,
                   session, Mutex, tvars, cvars, aborted, hvars, ovars>>

\* the stream is destroyed (a std::shared_ptr<IVideoStream> is released)
StreamDestroy ==
    /\ stream # NoStream
    /\ stream' = NoStream
    /\ file' = NoFile
    /\ ioResult' = NoResult
    /\ UNCHANGED <<kvars, callers, sources, offered, percents, observing, now,
                   session, Mutex, tvars, cvars, aborted, hvars, ovars>>

(* ---------------------------- rotated copy ---------------------------- *)
(* src/src/commons.cpp, CopyRgbaDataRotated.  A frame is its width, its   *)
(* height and its pixels in row-major order (data, a function on          *)
(* 0..width*height-1, or NullData); a destination buffer is a function on *)
(* 0..n-1 whose value NoPixel marks a pixel that was never written.       *)

NullData == <<"null">>
NoPixel == 0
ValidAngles == {0, 90, 180, 270}
Angles == ValidAngles \cup {0 - 90, 45, 360}

\* the index in the destination buffer of the source pixel (x, y):
\* dstY * outWidth + dstX, by the switch on rotate
DstIndexMirrored(x, y, srcWidth, srcHeight, outWidth, rotate) ==
    CASE rotate = 0 -> y * outWidth + x
      [] rotate = 90 -> x * outWidth + y
      [] rotate = 180 -> (srcHeight - 1 - y) * outWidth + (srcWidth - 1 - x)
      [] rotate = 270 -> (srcWidth - 1 - x) * outWidth + y
DstIndex(x, y, srcWidth, srcHeight, outWidth, rotate) ==
    CASE rotate = 0 -> y * outWidth + x
      [] rotate = 90 -> x * outWidth + (srcHeight - 1 - y)
      [] rotate = 180 -> (srcHeight - 1 - y) * outWidth + (srcWidth - 1 - x)
      [] rotate = 270 -> (srcWidth - 1 - x) * outWidth + y

\* the two loops from pixel number k = y * srcWidth + x on: the return
\* value, the destination buffer, and wild, whether a pixel was written
\* outside the buffer (undefined behaviour)
RECURSIVE CopyLoop(_, _, _, _, _, _)
CopyLoop(k, frame, dist, outWidth, rotate, wild) ==
    IF k >= frame.width * frame.height
    THEN [ret |-> "kErrorCode_Success", dist |-> dist, wild |-> wild]
    ELSE IF rotate \notin ValidAngles
    THEN [ret |-> "kErrorCode_Invalid_Param", dist |-> dist, wild |-> wild]
    ELSE LET x == k % frame.width
             y == k \div frame.width
             dst == DstIndex(x, y, frame.width, frame.height, outWidth,
                             rotate)
         IN  IF dst \in DOMAIN dist
             THEN CopyLoop(k + 1, frame,
                           [dist EXCEPT ![dst] = frame.data[k]], outWidth,
                           rotate, wild)
             ELSE CopyLoop(k + 1, frame, dist, outWidth, rotate, TRUE)

\* CopyRgbaDataRotated(frame, distBuffer, outWidth, outHeight, rotate);
\* frame is NullFrame, or frame.data NullData, or distBuffer NullData for
\* a null pointer
NullFrame == [width |-> 0, height |-> 0, data |-> NullData, null |-> TRUE]
CopyRgbaDataRotated(frame, distBuffer, outWidth, rotate) ==
    IF frame.null \/ frame.data = NullData \/ distBuffer = NullData
    THEN [ret |-> "kErrorCode_Invalid_Param", dist |-> distBuffer,
          wild |-> FALSE]
    ELSE CopyLoop(0, frame, distBuffer, outWidth, rotate, FALSE)

\* a frame of w x h pixels, each with a value of its own, and an
\* unwritten buffer for n pixels
NewFrame(w, h) ==
    [width |-> w, height |-> h, data |-> [i \in 0..(w * h - 1) |-> i + 1],
     null |-> FALSE]
NewBuffer(n) == [i \in 0..(n - 1) |-> NoPixel]

\* the calls of the routine: a frame of some size or a null frame, pixel
\* data or none, a destination buffer of the frame's size or none, an
\* angle, and as outWidth the frame's width or its height
CopyCalls ==
    {[stage |-> "call", frame |-> f, distBuffer |-> d, outWidth |-> ow,
      rotate |-> r, ret |-> "none", wild |-> FALSE, first |-> f] :
        f \in {NullFrame}
              \cup {NewFrame(w, h) : w \in 0..MaxDim, h \in 0..MaxDim}
              \cup {[NewFrame(w, h) EXCEPT !.data = NullData] :
                       w \in 1..MaxDim, h \in 1..MaxDim},
        d \in {NullData} \cup {NewBuffer(n) : n \in 0..(MaxDim * MaxDim)},
        ow \in 0..MaxDim, r \in Angles}

\* one call of the routine with the arguments of copy
RotateCopy ==
    /\ copy.stage = "call"
    /\ LET out == CopyRgbaDataRotated(copy.frame, copy.distBuffer,
                                      copy.outWidth, copy.rotate)
       IN  copy' = [copy EXCEPT !.stage = "copied", !.distBuffer = out.dist,
                                !.ret = out.ret, !.wild = out.wild]
    /\ UNCHANGED <<pvars, svars, converter, stamp>>

\* the result of a successful call that stayed inside its buffer, seen as
\* a frame of outWidth pixels per row, is copied again by the opposite
\* angle into a buffer of the first frame's shape
RotateBack ==
    /\ copy.stage = "copied"
    /\ copy.ret = "kErrorCode_Success"
    /\ ~copy.wild
    /\ copy.outWidth > 0
    /\ LET n == copy.frame.width * copy.frame.height
           turned == [width |-> copy.outWidth, height |-> n \div copy.outWidth,
                      data |-> copy.distBuffer, null |-> FALSE]
           back == (360 - copy.rotate) % 360
           out == CopyRgbaDataRotated(turned, NewBuffer(n), copy.frame.width,
                                      back)
       IN  /\ n > 0
           /\ n % copy.outWidth = 0
           /\ DOMAIN copy.distBuffer = 0..(n - 1)
           /\ copy' = [copy EXCEPT !.stage = "back", !.frame = turned,
                                   !.distBuffer = out.dist,
                                   !.outWidth = copy.frame.width,
                                   !.rotate = back, !.ret = out.ret,
                                   !.wild = out.wild]
    /\ UNCHANGED <<pvars, svars, converter, stamp>>

(* ------------------ FormatConverter (format_converter.h) ---------------- *)

\* AV_NOPTS_VALUE is the least value of the timestamp type; timestamps are
\* modelled in a narrow signed type with the same least value convention
AV_NOPTS_VALUE == 0 - 4
Stamps == {AV_NOPTS_VALUE, 0 - 1, 0, 1, 2}
\* bufferFrame as av_frame_alloc leaves it: no format, no timestamp
bufferFrame == [null |-> FALSE, format |-> "NONE", pts |-> AV_NOPTS_VALUE]
\* the frames Convert is called with: a null pointer or a decoded frame
SourceFrames ==
    {[null |-> TRUE, format |-> "NONE", pts |-> AV_NOPTS_VALUE]}
    \cup {[null |-> FALSE, format |-> f, pts |-> p] :
             f \in Formats, p \in Stamps}

\* the object after its constructor: swsContext is 0 for nullptr and the
\* number of the kernel made by sws_getContext otherwise; made counts the
\* kernels made, calls the calls of Convert, given is the frame of the
\* last call, threw tells that it ended in std::runtime_error and kept
\* that it used the kernel that was there
NewConverter ==
    [swsContext |-> 0, srcPixelFormat |-> "NONE", pts |-> AV_NOPTS_VALUE,
     made |-> 0, calls |-> 0, given |-> bufferFrame, threw |-> FALSE,
     kept |-> FALSE]

\* LoadContext with a test that is always true
LoadContextAlways(cv, format, ok) ==
    [cv EXCEPT !.srcPixelFormat = format,
               !.swsContext = IF ok THEN cv.made + 1 ELSE 0,
               !.made = IF ok THEN @ + 1 ELSE @,
               !.threw = ~ok,
               !.kept = FALSE]
\* LoadContext: ok tells whether sws_getContext returns a kernel
LoadContext(cv, format, ok) ==
    IF cv.swsContext = 0 \/ cv.srcPixelFormat # format
    THEN [cv EXCEPT !.srcPixelFormat = format,
                    !.swsContext = IF ok THEN cv.made + 1 ELSE 0,
                    !.made = IF ok THEN @ + 1 ELSE @,
                    !.threw = ~ok,
                    !.kept = FALSE]
    ELSE [cv EXCEPT !.threw = FALSE, !.kept = TRUE]

\* Convert(sourceFrame): the exception of LoadContext leaves the call
\* before sws_scale and before the timestamp is copied
Convert(sourceFrame, ok) ==
    /\ converter # NoConverter
    /\ converter.calls < MaxCalls
    /\ LET frame == IF sourceFrame.null THEN bufferFrame ELSE sourceFrame
           loaded == LoadContext(converter, frame.format, ok)
       IN  converter' =
               [loaded EXCEPT !.pts = IF loaded.threw THEN @ ELSE frame.pts,
                              !.calls = @ + 1,
                              !.given = frame]
    /\ UNCHANGED <<pvars, svars, copy, stamp>>
ConvertStep == \E f \in SourceFrames, ok \in BOOLEAN : Convert(f, ok)

(* --------------- timestamps of a decoded frame (LoopPlay) -------------- *)

\* the timestamp ff_get_best_effort_timestamp picks from a frame
ff_get_best_effort_timestamp(frame) ==
    IF frame.best_effort_timestamp # AV_NOPTS_VALUE
    THEN frame.best_effort_timestamp
    ELSE IF frame.pts # AV_NOPTS_VALUE
    THEN frame.pts
    ELSE IF frame.pkt_dts # AV_NOPTS_VALUE
    THEN frame.pkt_dts
    ELSE AV_NOPTS_VALUE

\* (int64_t)(pts * av_q2d(time_base) * 1000.0) for the time base 1/tbDen:
\* the conversion to int64_t truncates toward zero
ToMills(pts, tbDen) ==
    IF pts >= 0
    THEN (pts * 1000) \div tbDen
    ELSE 0 - (((0 - pts) * 1000) \div tbDen)

\* the time bases of the streams
TimeBases == {src.tbDen : src \in {FileSource, HalfSource}}
\* the frames avcodec_receive_frame can return, with the time base of
\* their stream
DecodedFrames ==
    {[stage |-> "decoded", best_effort_timestamp |-> b, pts |-> p,
      pkt_dts |-> d, tbDen |-> tb, CurrentTimeMills |-> 0, TimeMills |-> 0] :
        b \in Stamps, p \in Stamps, d \in Stamps, tb \in TimeBases}

\* LoopPlay from avcodec_receive_frame to CurrentTimeMills.store(t)
StoreStamp ==
    /\ stamp.stage = "decoded"
    /\ LET got == ff_get_best_effort_timestamp(stamp)
           pts == IF got < 0 THEN 0 ELSE got
           t == ToMills(pts, stamp.tbDen)
       IN  stamp' = [stamp EXCEPT !.stage = "stored", !.CurrentTimeMills = t]
    /\ UNCHANGED <<pvars, svars, copy, converter>>

\* processDecodedVideoFrame up to the call of FrameCallback
DeliverStamp ==
    /\ stamp.stage = "stored"
    /\ LET got == ff_get_best_effort_timestamp(stamp)
           pts == IF got = AV_NOPTS_VALUE THEN 0 ELSE got
       IN  stamp' = [stamp EXCEPT !.stage = "callback",
                                  !.TimeMills = ToMills(pts, stamp.tbDen)]
    /\ UNCHANGED <<pvars, svars, copy, converter>>

(* --------------------------- specification ---------------------------- *)

\* Open(player, file_or_fd_uri, options) with a source and an option value
\* the caller may pass; outcome is how far the construction gets
Open(c, outcome) ==
    \E opts \in offered, src \in sources : OpenBuild(c, opts, src, outcome)

CallerStep ==
    \E c \in AllCallers :
        \/ \E o \in OpenOutcomes : Open(c, o)
        \/ OpenSpawn(c)
        \/ OpenInfo(c)
        \/ Unlock(c)
        \/ Close(c)
        \/ Pause(c)
        \/ Join(c)
        \/ CloseFree(c)
        \/ ResumeCheck(c)
        \/ ResumeLocked(c)
        \/ \E pnum \in Percents : SeekCheck(c, pnum)
        \/ SeekStop(c)
        \/ \E seekOk \in BOOLEAN : SeekDo(c, seekOk)
        \/ SeekRestart(c)
        \/ Return(c)

\* the steps of the decode thread t
LoopPlay(t) ==
    \/ LoopPlayEntry(t)
    \/ LoopPlayCopy(t)
    \/ LoopExit(t)
    \/ ReadEof(t)
    \/ ReadError(t)
    \/ Backoff(t)
    \/ \E sendOk \in BOOLEAN : ReadPacket(t, sendOk)
    \/ ReceiveFrame(t)
    \/ Publish(t)
    \/ DeliverFrame(t)

ThreadStep == \E t \in Threads : LoopPlay(t)

\* the steps by which caller c continues the operation it is inside
Continue(c) ==
    \/ OpenSpawn(c)
    \/ OpenInfo(c)
    \/ Unlock(c)
    \/ Join(c)
    \/ CloseFree(c)
    \/ ResumeLocked(c)
    \/ SeekStop(c)
    \/ \E seekOk \in BOOLEAN : SeekDo(c, seekOk)
    \/ SeekRestart(c)
    \/ Return(c)

\* the wall clock advances, as long as it is tracked
Tick ==
    /\ aborted = "no"
    /\ now < Horizon
    /\ now' = now + TickUs
    /\ UNCHANGED <<kvars, svars, callers, sources, offered, percents,
                   observing, session, Mutex, tvars, cvars, aborted, hvars,
                   ovars>>

\* one caller thread and the decode thread
NextSeq == CallerStep \/ ThreadStep
SpecSeq == InitSeq /\ [][NextSeq]_vars

\* one caller thread, the decode thread and the wall clock
NextTimed == CallerStep \/ ThreadStep \/ Tick
SpecTimed == InitTimed /\ [][NextTimed]_vars

\* two caller threads and the decode threads they start
Next == CallerStep \/ ThreadStep \/ Fault
Spec == Init /\ [][Next]_vars

\* CreateVideoPlayer; operations are issued from one caller thread on one
\* source and with one option value: FileSource decoded to some format
\* with some FrameScale, or FileSource with some rotation in its metadata
InitFrame ==
    /\ callers = {"c1"}
    /\ \/ \E src \in FormatSources, opts \in ScaledOptions :
             sources = {src} /\ offered = {opts}
       \/ \E src \in RotatedSources :
             sources = {src} /\ offered = {AllCallbacks}
    /\ percents = {1}
    /\ observing = TRUE
    /\ now = Horizon
    /\ InitSession
    /\ NoParts
SpecFrame == InitFrame /\ [][NextSeq]_vars

\* CreateVideoPlayer; operations are issued from one caller thread on
\* sources whose container and stream durations differ
InitSkewed ==
    /\ callers = {"c1"}
    /\ sources = SkewedSources
    /\ offered = {AllCallbacks}
    /\ percents = {1, PercentDen}
    /\ observing = TRUE
    /\ now = Horizon
    /\ InitSession
    /\ NoParts
SpecSkewed == InitSkewed /\ [][NextSeq]_vars

\* a stream is constructed, used and destroyed
StreamStep ==
    \/ \E opened, told \in BOOLEAN : VideoFileStream(opened, told)
    \/ \E len \in Lengths : FileRead(len)
    \/ \E offset \in Offsets, whence \in Whences : FileSeek(offset, whence)
    \/ \E kind \in {"bad", "pipe", "file"}, k \in 0..FileLen,
          failAt \in {0} \cup ProbeSteps, again \in BOOLEAN :
              VideoFileDescriptorStream(kind, k, failAt, again)
    \/ \E len \in Lengths, err \in {0, EINVAL, EBADF} : FdRead(len, err)
    \/ \E offset \in Offsets, whence \in Whences, err \in {0, EBADF} :
          FdSeek(offset, whence, err)
    \/ StreamDestroy
\* no session: only the byte streams
InitStream ==
    /\ callers = {}
    /\ sources = {}
    /\ offered = {}
    /\ percents = {}
    /\ observing = TRUE
    /\ now = Horizon
    /\ InitSession
    /\ NoParts
SpecStream == InitStream /\ [][StreamStep]_vars

\* no session: only calls of the rotated copy
InitRotate ==
    /\ callers = {}
    /\ sources = {}
    /\ offered = {}
    /\ percents = {}
    /\ observing = TRUE
    /\ now = Horizon
    /\ InitSession
    /\ copy \in CopyCalls
    /\ converter = NoConverter
    /\ stamp = NoStamp
SpecRotate == InitRotate /\ [][RotateCopy \/ RotateBack]_vars

\* no session: only calls of Convert on a new converter
InitConvert ==
    /\ callers = {}
    /\ sources = {}
    /\ offered = {}
    /\ percents = {}
    /\ observing = TRUE
    /\ now = Horizon
    /\ InitSession
    /\ copy = NoCopy
    /\ converter = NewConverter
    /\ stamp = NoStamp
SpecConvert == InitConvert /\ [][ConvertStep]_vars

\* no session: one decoded frame on its way to the frame callback
InitStamp ==
    /\ callers = {}
    /\ sources = {}
    /\ offered = {}
    /\ percents = {}
    /\ observing = TRUE
    /\ now = Horizon
    /\ InitSession
    /\ copy = NoCopy
    /\ converter = NoConverter
    /\ stamp \in DecodedFrames
SpecStamp == InitStamp /\ [][StoreStamp \/ DeliverStamp]_vars

\* fair scheduling: a decode thread or a caller inside an operation whose
\* next step is possible again and again eventually takes it (a thread
\* that can run is scheduled, a mutex that keeps being released is
\* acquired, a join on a finished thread returns); engine calls and
\* callbacks return because their steps are always possible
Fairness ==
    /\ \A t \in Threads : SF_vars(LoopPlay(t))
    /\ \A c \in AllCallers : SF_vars(Continue(c))
\* two caller threads and the decode threads, fairly scheduled
SpecFair == Init /\ [][Next]_vars /\ Fairness

(* ------------------------------ claims -------------------------------- *)

\* a caller inside operation op that has returned (its result is cres)
Returned(c, op) == cop[c] = op /\ cpc[c] = "ret"
\* no thread exists at all: every started thread was joined
AllJoined == \A t \in Threads : tpc[t] = "none"

\* C1: under any interleaving of the lifecycle operations, the session has
\* one Worker handle and a new thread is never assigned to it while the
\* handle is still joinable (the assignment would call std::terminate).
C1_WorkerNeverOverwritten == aborted # "worker_overwritten"

\* C2: when Close has released converter, metadata, stream and context, no
\* decode thread that passed the context check of LoopPlay is still running.
C2_CloseAfterThreadStopped ==
    \A c \in AllCallers :
        (cop[c] = "Close" /\ cpc[c] = "close_freed")
            => \A t \in Threads : tpc[t] \notin ({"copy"} \cup InLoop)

\* positions at which a caller waits for the mutex
LockPoints ==
    {"open_spawn", "close_free", "resume_lock", "seek_stop", "seek_do",
     "seek_restart"}
\* the caller cannot take its next step
CallerBlocked(c) ==
    \/ cpc[c] \in LockPoints /\ Mutex # None
    \/ cpc[c] = "join" /\ Joinable(ctmp[c]) /\ tpc[ctmp[c]] # "done"
\* the decode thread cannot take its next step
ThreadBlocked(t) == tpc[t] \in {"start", "copy"} /\ Mutex # None
\* some caller is inside an operation or some thread runs, and none of
\* them can take a step
Deadlocked ==
    /\ aborted = "no"
    /\ \/ \E c \in AllCallers : cpc[c] \notin {"idle", "ret"}
       \/ \E t \in Threads : tpc[t] \in Live
    /\ \A c \in AllCallers : cpc[c] \notin {"idle", "ret"} => CallerBlocked(c)
    /\ \A t \in Threads : tpc[t] \in Live => ThreadBlocked(t)

\* C3: Close, Pause and SeekToPercent never hold the session mutex while
\* they join the decode thread, and no interleaving of the lifecycle
\* operations with the decode thread reaches a deadlock.
C3_JoinOutsideLock ==
    /\ \A c \in AllCallers : cpc[c] = "join" => Mutex # c
    /\ ~Deadlocked
\* a caller joins a thread that has yet to take the mutex at loop entry
C3_Witness ==
    \E c \in AllCallers :
        cpc[c] = "join" /\ Joinable(ctmp[c]) /\ tpc[ctmp[c]] = "start"

\* C4: a successful SeekToPercent on a session that was not running when
\* it was called leaves it not running, with no decode thread started.
C4_SeekKeepsPaused ==
    \A c \in AllCallers :
        (Returned(c, "Seek") /\ cres[c] /\ ~cpre[c])
            => (~IsRunning /\ AllJoined)

\* C5: a SeekToPercent that returns false on an open session leaves
\* IsRunning as it was when it was called, and no step of it has changed
\* the position (only the step of a successful engine seek stores one).
C5_FailedSeekKeepsState ==
    /\ [](\A c \in AllCallers :
            (Returned(c, "Seek") /\ ~cres[c] /\ Context.open)
                => IsRunning = cpre[c])
    /\ [][\A c \in AllCallers :
            (cop'[c] = "Seek" /\ cpc'[c] # cpc[c] /\ cpc'[c] # "seek_done")
                => UNCHANGED CurrentTimeMills]_vars

\* C6: a successful Open invokes the metadata callback exactly once, and
\* before the decode thread invokes the first frame callback; a failed
\* Open does not invoke it.
C6_MetadataBeforeFrames ==
    /\ ~earlyFrame
    /\ \A c \in AllCallers :
          Returned(c, "Open")
              => infoCalls[c] =
                    (IF cres[c] /\ Options.VideoInfoCallback THEN 1 ELSE 0)

\* C7: after an Open that returned false because one of its steps failed,
\* the session holds no stream, context, converter or metadata, is not
\* running and has no decode thread.
C7_FailedOpenLeavesNothing ==
    \A c \in AllCallers :
        (Returned(c, "Open") /\ ~cres[c] /\ carg[c] = "step_failed")
            => /\ ~IO
               /\ ~Context.open
               /\ ~FormatConverter
               /\ ~VideoInfo
               /\ ~IsRunning
               /\ AllJoined

\* C8: an Open that finds a decode context attached returns false, starts
\* no thread and leaves the context, the stream and the converter alone.
C8_SecondOpenRejected ==
    /\ [][\A c \in AllCallers :
            (CanCall(c) /\ cop'[c] = "Open" /\ Context.open)
                => /\ carg'[c] = "already"
                   /\ cpc'[c] = "open_fail"
                   /\ UNCHANGED <<Context, IO, FormatConverter, Worker, tpc,
                                  IsRunning>>]_vars
    /\ [](\A c \in AllCallers :
            (cop[c] = "Open" /\ carg[c] = "already")
                => /\ cpc[c] \in {"open_fail", "ret"}
                   /\ cpc[c] = "ret" => ~cres[c])
\* a rejected Open has returned and the context is still attached
C8_Witness ==
    \E c \in AllCallers :
        Returned(c, "Open") /\ carg[c] = "already" /\ ~cres[c] /\ Context.open

\* C9: when Pause returns on a session that was running, the flag is
\* clear, the thread was joined and the context, stream, converter and
\* metadata are still held; while the session stays paused no thread
\* exists that could invoke the frame callback; no step of Pause releases
\* anything or writes the position.
C9_PauseStopsAndKeeps ==
    /\ [](\A c \in AllCallers :
            (Returned(c, "Pause") /\ cpre[c])
                => /\ ~IsRunning
                   /\ AllJoined
                   /\ ~Joinable(Worker)
                   /\ Context.open /\ IO /\ VideoInfo /\ FormatConverter)
    /\ []((~IsRunning /\ \A c \in callers : cpc[c] \in {"idle", "ret"})
            => AllJoined)
    /\ [][\A c \in AllCallers :
            (cop'[c] = "Pause" /\ cpc'[c] # cpc[c])
                => UNCHANGED <<Context, IO, VideoInfo, FormatConverter,
                              CurrentTimeMills>>]_vars
\* Pause has returned on a session that had delivered the second frame
C9_Witness ==
    \E c \in AllCallers :
        Returned(c, "Pause") /\ cpre[c] /\ CurrentTimeMills > 0

\* C10: a Pause that finds the session not running changes nothing of the
\* session, joins nothing, is never blocked after its first step, and
\* returns.
C10_PauseIdempotent ==
    /\ [][\A c \in AllCallers :
            (cop'[c] = "Pause" /\ ~cpre'[c] /\ cpc'[c] # cpc[c])
                => /\ UNCHANGED <<session, tvars>>
                   /\ ctmp'[c] = NoThread]_vars
    /\ [](\A c \in AllCallers :
            (cop[c] = "Pause" /\ ~cpre[c])
                => /\ cpc[c] \in {"stopped", "join", "ret"}
                   /\ ~Joinable(ctmp[c])
                   /\ ~CallerBlocked(c))
\* a second Pause has returned on an open, already paused session
C10_Witness ==
    \E c \in AllCallers :
        Returned(c, "Pause") /\ ~cpre[c] /\ Context.open /\ ~IsRunning

\* C11: a Resume that finds the session running takes no lock-protected
\* action: its steps leave the whole session (flag, handle, position,
\* baseline, engine) and every decode thread as they were, it spawns
\* nothing, and it returns false.
C11_ResumeWhileRunning ==
    /\ [][\A c \in AllCallers :
            (cpc[c] = "resume_lock" /\ cpc'[c] # cpc[c] /\ IsRunning)
                => /\ cpc'[c] = "resume_fail"
                   /\ UNCHANGED <<session, tvars>>]_vars
    /\ [][\A c \in AllCallers :
            (cpc[c] = "resume_fail" /\ cpc'[c] # cpc[c])
                => /\ Returned(c, "Resume")'
                   /\ ~cres'[c]
                   /\ UNCHANGED <<session, tvars>>]_vars
    /\ [](\A c \in AllCallers :
            (cop[c] = "Resume" /\ cpre[c] /\ cpc[c] # "idle")
                => /\ IsRunning
                   /\ cpc[c] \in {"resume_lock", "resume_fail", "ret"}
                   /\ Returned(c, "Resume") => ~cres[c])
\* Resume has returned false while the decode thread is in its loop
C11_Witness ==
    \E c \in AllCallers :
        /\ Returned(c, "Resume") /\ cpre[c] /\ ~cres[c] /\ IsRunning
        /\ \E t \in Threads : tpc[t] \in InLoop

\* the time thread t still has to sleep before it publishes its frame
\* (meaningful while the clock is tracked)
Wait(t) == Later(0, tstart[t] + tpts[t] - now)

\* C12: a Resume that finds the open session not running sets the flag,
\* starts exactly one thread and returns true; the baseline that thread
\* computes, at its start or at its first frame, is the wall clock minus
\* the last published position, and its first frame sleeps no longer than
\* its timestamp minus that position, however long the session was paused.
C12_ResumeRebasesClock ==
    /\ [][\A c \in AllCallers :
            (cpc[c] = "resume_lock" /\ cpc'[c] # cpc[c] /\ ~IsRunning)
                => /\ cpc'[c] = "resume_ok"
                   /\ IsRunning'
                   /\ Joinable(Worker')
                   /\ tpc[Worker'] = "none"
                   /\ tpc' = [tpc EXCEPT ![Worker'] = "start"]
                   /\ UNCHANGED CurrentTimeMills]_vars
    /\ [][\A c \in AllCallers :
            (cpc[c] = "resume_ok" /\ cpc'[c] # cpc[c])
                => Returned(c, "Resume")' /\ cres'[c]]_vars
    /\ [][\A t \in Threads :
            (tstart[t] = NoTime /\ tstart'[t] # NoTime /\ now < Horizon)
                => tstart'[t] = now - CurrentTimeMills * 1000]_vars
    /\ [](\A t \in Threads :
            (tpc[t] = "pace" /\ tfirst[t] /\ now < Horizon)
                => Wait(t) <= Later(0, tpts[t] - CurrentTimeMills * 1000))
\* the first frame of the thread started by a Resume made some time after
\* the session was created is sleeping until its deadline
C12_Witness ==
    \E c \in AllCallers, t \in Threads :
        /\ Returned(c, "Resume") /\ cres[c]
        /\ StartWallClockUS > Epoch
        /\ tpc[t] = "pace" /\ tfirst[t] /\ now < Horizon
        /\ Wait(t) > 0

\* C13: under fair scheduling every Pause, Close and SeekToPercent
\* returns: while such a call waits in join for a thread that has not
\* returned, the flag it cleared stays clear, so that the thread finds it
\* clear at its next loop test and exits, and the call goes on to return.
C13_StopCallsReturn ==
    /\ [](\A c \in AllCallers :
            (cpc[c] = "join" /\ Joinable(ctmp[c]) /\ tpc[ctmp[c]] \in Live)
                => ~IsRunning)
    /\ \A c \in AllCallers :
          (cop[c] \in {"Pause", "Close", "Seek"}) ~> (cop[c] = "none")

\* C14: a frame leaves the pacing step, and so reaches the frame callback,
\* no earlier than its deadline, baseline plus timestamp; a frame whose
\* deadline has passed is not held back: the step that publishes and
\* delivers it is possible at once.
C14_NeverEarly ==
    /\ [][\A t \in Threads :
            (tpc[t] = "pace" /\ tpc'[t] = "cb" /\ now < Horizon)
                => now >= tstart[t] + tpts[t]]_vars
    /\ [](\A t \in Threads :
            (tpc[t] = "cb" /\ now < Horizon) => now >= tstart[t] + tpts[t])
    /\ [](\A t \in Threads :
            (tpc[t] = "pace" /\ aborted = "no" /\ Wait(t) = 0)
                => ENABLED Publish(t))
\* a frame with a positive timestamp is about to be delivered at the very
\* time of its deadline
C14_Witness ==
    \E t \in Threads :
        /\ tpc[t] = "cb" /\ now < Horizon
        /\ tpts[t] > 0 /\ now = tstart[t] + tpts[t]

\* C15: after the running decode thread restarted the stream at wall clock
\* time restartAt, a frame of the replayed pass reaches the frame callback
\* no earlier than restartAt plus its timestamp.
C15_ReplayIsPaced ==
    \A t \in Threads :
        (tpc[t] = "cb" /\ restartAt # NoTime /\ now < Horizon)
            => now >= restartAt + tpts[t]

\* C16: every frame that leaves the decoder is handed to the pacing step,
\* leaves it only for the frame callback and is passed to the callback
\* once, before the thread asks the decoder for the next one, so frames
\* are delivered in decode order and none is dropped for being late; a
\* thread holds a frame only between these steps, a frame is buffered in
\* the decoder only while a thread is about to receive it, and no step of
\* Pause or Resume moves the demuxer or the decoder, so none is lost or
\* repeated across a pause.
C16_EveryFrameOnce ==
    /\ [][\A t \in Threads :
            (tpc[t] = "recv" /\ decBuf # NoFrame /\ decBuf' # decBuf)
                => tpc'[t] = "pace" /\ tframe'[t] = decBuf]_vars
    /\ [][\A t \in Threads :
            (tpc[t] = "pace" /\ tpc'[t] # "pace")
                => tpc'[t] = "cb" /\ tframe'[t] = tframe[t]]_vars
    /\ [][\A t \in Threads :
            (tpc[t] = "cb" /\ tpc'[t] # "cb")
                => /\ cbFrame = NoFrame
                   /\ cbFrame' = tframe[t]
                   /\ tpc'[t] = "recv"
                   /\ tframe'[t] = NoFrame]_vars
    /\ [][\A c \in AllCallers :
            (cop'[c] \in {"Pause", "Resume"} /\ cpc'[c] # cpc[c])
                => UNCHANGED <<readIdx, decBuf>>]_vars
    /\ [](\A t \in Threads : tframe[t] # NoFrame <=> tpc[t] \in {"pace", "cb"})
    /\ [](decBuf # NoFrame => \E t \in Threads : tpc[t] = "recv")
\* the thread started by a Resume has passed to the callback a frame whose
\* deadline was over when it was delivered
C16_Witness ==
    \E c \in AllCallers, t \in Threads :
        /\ Returned(c, "Resume") /\ cres[c]
        /\ tpc[t] = "recv" /\ ~tfirst[t]
        /\ cbFrame # NoFrame
        /\ now < Horizon
        /\ now > tstart[t] + PtsUs(Context, cbFrame)

\* C17: the decode thread stores the position of a frame in the step that
\* ends the pacing wait, not before, and the frame callback for that frame
\* runs afterwards, in the thread's own next step; no other step of a
\* decode thread writes the position or invokes the frame callback.
C17_PublishThenCallback ==
    /\ [][\A t \in Threads :
            (tpc[t] = "pace" /\ tpc'[t] = "cb")
                => /\ CurrentTimeMills' = tpts[t] \div 1000
                   /\ now < Horizon => now >= tstart[t] + tpts[t]
                   /\ UNCHANGED cbFrame]_vars
    /\ [][CurrentTimeMills' # CurrentTimeMills
            => \/ \E t \in Threads : tpc[t] = "pace" /\ tpc'[t] = "cb"
               \/ \E c \in AllCallers :
                     cpc'[c] \in {"open_built", "seek_done"}]_vars
    /\ [][(cbFrame' # cbFrame /\ cbFrame' # NoFrame)
            => \E t \in Threads :
                  /\ tpc[t] = "cb" /\ tpc'[t] = "recv"
                  /\ cbFrame' = tframe[t]]_vars
    /\ [](\A t \in Threads :
            tpc[t] = "cb" => CurrentTimeMills = tpts[t] \div 1000)
\* after a pacing wait the position of the second frame is published and
\* its callback has not run yet
C17_Witness ==
    \E t \in Threads :
        /\ tpc[t] = "cb" /\ cbFrame = NoFrame
        /\ CurrentTimeMills = PtsMs(Context, tframe[t])
        /\ CurrentTimeMills > 0
        /\ now < Horizon /\ now = tstart[t] + tpts[t]

\* C18: a decode thread inside its loop leaves it only from the loop test
\* and only with the flag clear, and the flag is cleared only by the first
\* step of Close, Pause or SeekToPercent or by a thread that finds no
\* context before it enters the loop; at the end of the stream the thread
\* rewinds and stays in the loop, from a read-fault backoff it returns to
\* the loop test, and a packet the decoder refuses is skipped.
C18_ExitOnlyOnStop ==
    /\ [][\A t \in Threads :
            (tpc[t] \in InLoop /\ tpc'[t] \notin InLoop /\ aborted' = "no")
                => tpc[t] = "poll" /\ tpc'[t] = "done" /\ ~IsRunning]_vars
    /\ [][(IsRunning /\ ~IsRunning' /\ aborted' = "no")
            => \/ \E c \in AllCallers :
                     /\ cop'[c] \in {"Close", "Pause", "Seek"}
                     /\ cpc[c] # "stopped" /\ cpc'[c] = "stopped"
               \/ \E t \in Threads :
                     tpc[t] = "start" /\ tpc'[t] = "done" /\ ~Context.open]_vars
    /\ [][\A t \in Threads :
            (tpc[t] = "poll" /\ IsRunning /\ readIdx' # readIdx)
                => /\ tpc'[t] \in {"poll", "recv"}
                   /\ readIdx' = (IF readIdx = Context.nframes THEN 0
                                  ELSE readIdx + 1)]_vars
    /\ [][\A t \in Threads :
            (tpc[t] = "backoff" /\ tpc'[t] # "backoff" /\ aborted' = "no")
                => tpc'[t] = "poll"]_vars
\* a running thread that has rewound at the end of the stream is in the
\* backoff sleep after a read fault
C18_Witness ==
    \E t \in Threads : tpc[t] = "backoff" /\ jumped /\ IsRunning

\* C19: while the session is running the position never decreases, except
\* in the step of a successful seek that stores the target and in the
\* first store of the decode thread after it restarted the stream.
C19_PositionMonotonic ==
    [][(IsRunning /\ IsRunning' /\ CurrentTimeMills' < CurrentTimeMills)
        => \/ jumped
           \/ \E c \in AllCallers : cpc'[c] = "seek_done"]_vars

\* C20: while the context of a successful Open is attached,
\* GetDurationMills returns the DurationMills that Open gave to the
\* metadata callback, and no step other than one that detaches the context
\* changes what it returns.
C20_DurationConsistent ==
    /\ []((Context.open /\ infoDuration # NoTime)
            => GetDurationMills(Context) = infoDuration)
    /\ [][(Context.open /\ Context'.open)
            => GetDurationMills(Context') = GetDurationMills(Context)]_vars

\* no decode thread has stored a position since it was started
NothingPublished ==
    \A t \in Threads : tpc[t] \in {"none", "start", "copy"} \/ tfirst[t]
\* the position a successful SeekToPercent(p / PercentDen) is to store:
\* the fraction min(max(p, 0), PercentDen) of the duration, in milliseconds
SeekTargetMills(ctx, p) ==
    LET q == IF p <= 0 THEN 0 ELSE IF p >= PercentDen THEN PercentDen ELSE p
    IN ((SeekDuration(ctx) * q) \div PercentDen) \div 1000

\* C21: SeekToPercent on an open session goes on to stop the thread and
\* seek whatever fraction it was passed, and from the step that stored the
\* target until a decode thread stores the position of a frame, the
\* position is the fraction of the duration, clamped to [0, 1], in
\* milliseconds.
C21_SeekClamps ==
    /\ [][\A c \in AllCallers :
            (cpc[c] = "idle" /\ cop'[c] = "Seek" /\ Context.open)
                => cpc'[c] = "seek_stop"]_vars
    /\ [](\A c \in AllCallers :
            (/\ cop[c] = "Seek"
             /\ cpc[c] \in {"seek_done", "seek_restart", "seek_restarted"}
                   \/ (cpc[c] = "ret" /\ cres[c])
             /\ NothingPublished)
                => CurrentTimeMills = SeekTargetMills(Context, seekArg[c]))
\* a seek to a fraction above 1 has returned true, the thread it started
\* is in its loop and the position is still the whole duration
C21_Witness ==
    \E c \in AllCallers, t \in Threads :
        /\ Returned(c, "Seek") /\ cres[c]
        /\ seekArg[c] > PercentDen
        /\ tpc[t] \in InLoop /\ tfirst[t]
        /\ CurrentTimeMills = GetDurationMills(Context)
        /\ CurrentTimeMills > 0

\* C22: when SeekToPercent has flushed the decoder and called the engine
\* seek, under the mutex, no decode thread is inside its decode loop.
C22_SeekWhileStopped ==
    \A c \in AllCallers :
        (cop[c] = "Seek" /\ cpc[c] \in {"seek_done", "seek_fail"})
            => \A t \in Threads : tpc[t] \notin InLoop

\* C23: the decode thread reads the flag before every packet it reads and
\* before every frame it takes from the decoder, so that each of these
\* steps is taken with the flag found set.
C23_FlagPolledPerFrame ==
    /\ [][\A t \in Threads :
            (tpc[t] = "poll" /\ readIdx' # readIdx /\ tpc'[t] \in InLoop)
                => IsRunning]_vars
    /\ [][\A t \in Threads :
            (tpc[t] = "recv" /\ tframe[t] = NoFrame /\ tframe'[t] # NoFrame)
                => IsRunning]_vars

\* C24: the step of Open that attaches stream, context and converter runs
\* with the caller holding the mutex, and the step of Open that creates
\* the decode thread runs with the caller not holding it.
C24_SpawnOutsideLock ==
    /\ [][\A c \in AllCallers :
            (cop'[c] = "Open" /\ cpc'[c] # cpc[c] /\ Context' # Context)
                => Mutex' = c]_vars
    /\ [][\A c \in AllCallers, t \in Threads :
            (/\ cop[c] = "Open" /\ cpc'[c] # cpc[c]
             /\ tpc[t] = "none" /\ tpc'[t] = "start")
                => Mutex' # c]_vars

\* C25: a descriptor stream whose constructor saw an lseek of its probe
\* (query the offset, move forward, move back, query the end, return)
\* fail answers Seekable() with false from then on.
C25_ProbeDegrades ==
    (stream.class = "VideoFileDescriptorStream" /\ file.probe \in ProbeSteps)
        => ~Seekable(stream)

\* the size or the seekability of the stream's medium could not be
\* established: a path that could not be opened or whose end offset could
\* not be queried, a descriptor that is not open, a descriptor whose
\* probe failed before the end offset was known
Unestablished ==
    \/ stream.class = "VideoFileStream"
          /\ (stream.input = "closed" \/ file.probe # 0)
    \/ stream.class = "VideoFileDescriptorStream"
          /\ (file.kind = "bad" \/ file.probe \in 1..4)
\* a Seek that asked for a position (not for the total size) has returned
Positional ==
    ioResult.op = "Seek" /\ ioResult.whence \in {SEEK_SET, SEEK_CUR, SEEK_END}

\* C26: a stream of either class whose size or seekability could not be
\* established reports SizeInBytes() = -1 and Seekable() = false, its
\* Seek(AVSEEK_SIZE) returns -1 and its positional Seek returns an error.
C26_UnknownNotGuessed ==
    Unestablished =>
        /\ SizeInBytes(stream) = 0 - 1
        /\ ~Seekable(stream)
        /\ (ioResult.op = "Seek" /\ ioResult.whence = AVSEEK_SIZE)
              => ioResult.ret = 0 - 1
        /\ Positional => ioResult.ret < 0

\* C27: SeekToPercent on a session that was opened on a descriptor which
\* is a pipe returns false.
C27_PipeSeekFails ==
    \A c \in AllCallers :
        (Returned(c, "Seek") /\ Context.open /\ Context.pipe) => ~cres[c]

\* a step of Read, of Seek(offset, SEEK_SET), on a seekable descriptor stream
ReadStep ==
    /\ stream.class = "VideoFileDescriptorStream"
    /\ Seekable(stream)
    /\ ioResult'.op = "Read"
    /\ ioResult' # ioResult
SeekSetStep ==
    /\ stream.class = "VideoFileDescriptorStream"
    /\ Seekable(stream)
    /\ ioResult'.op = "Seek"
    /\ ioResult'.whence = SEEK_SET
    /\ ioResult' # ioResult

\* C28: on a seekable descriptor stream a Read that returns n >= 0 stores n
\* bytes and advances read_position by exactly n, where n is less than
\* the requested length only if the end of the data was reached and 0 at
\* the end of the data, and a Read that returns a negative value leaves
\* read_position unchanged; a Seek(k, SEEK_SET) that succeeds returns k
\* and sets read_position to k; and every byte a Read stores equals the
\* byte the first Read at that position stored.
C28_ReadSeekRoundTrip ==
    /\ [][ReadStep =>
            IF ioResult'.ret >= 0
            THEN /\ Len(ioResult'.data) = ioResult'.ret
                 /\ stream'.read_position
                       = stream.read_position + ioResult'.ret
                 /\ ioResult'.ret <= ioResult'.arg
                 /\ ioResult'.ret < ioResult'.arg
                       => stream'.read_position >= FileLen
                 /\ stream.read_position >= FileLen => ioResult'.ret = 0
            ELSE stream'.read_position = stream.read_position]_vars
    /\ [][(SeekSetStep /\ ioResult'.ret >= 0)
            => /\ ioResult'.ret = ioResult'.arg
               /\ stream'.read_position = ioResult'.arg]_vars
    /\ [](stream.class = "VideoFileDescriptorStream" /\ ioResult.op = "Read"
            => \A j \in 1..Len(ioResult.data) :
                  /\ ioResult.at + j - 1 < FileLen
                  /\ ioResult.seen[ioResult.at + j - 1] = ioResult.data[j])
\* a descriptor stream opened at offset 1 was read to the end of the data
\* (a short Read), sought back to offset 1, and has stored again a byte
\* it stored before
C28_Witness ==
    /\ stream.class = "VideoFileDescriptorStream"
    /\ Seekable(stream)
    /\ file.probe = 0
    /\ ioResult.op = "Read"
    /\ ioResult.at = 1
    /\ ioResult.reread
    /\ ioResult.ret = FileLen - 1
    /\ ioResult.ret < ioResult.arg
    /\ stream.read_position = FileLen

\* no scaling is requested: the converter's target size is the source size
NoScaling(frame) ==
    /\ DistDim(frame.Width, frame.FrameScale) = frame.Width
    /\ DistDim(frame.Height, frame.FrameScale) = frame.Height

\* C29: the frame handed to the frame callback is the decoded frame itself
\* exactly when the decoded format is RGBA or BGRA and no scaling is
\* requested; otherwise it is the converter's frame.
C29_ConvertUnlessDirect ==
    vf # NoVideoFrame =>
        /\ vf.AvFrame = "frame"
              <=> (vf.format \in {"RGBA", "BGRA"} /\ NoScaling(vf))
        /\ vf.AvFrame \in {"frame", "convertedFrame"}

\* x normalized to [0, 360)
normalize360(x) == x % 360

\* C30: the rotation handed to the frame callback is
\* normalize360(-videoRotation) and one of 0, 90, 180, 270.
C30_RotationNormalized ==
    vf # NoVideoFrame =>
        /\ vf.Rotation = normalize360(0 - vf.videoRotation)
        /\ vf.Rotation \in {0, 90, 180, 270}

\* a first call of the rotated copy has returned
Copied == copy.stage = "copied"
\* one of its pointer arguments was null
NullArgument ==
    copy.first.null \/ copy.first.data = NullData \/ copy.distBuffer = NullData
\* nothing was written to the destination buffer
Unwritten ==
    copy.distBuffer = NullData
        \/ \A i \in DOMAIN copy.distBuffer : copy.distBuffer[i] = NoPixel

\* C31: the rotated copy returns kErrorCode_Invalid_Param and writes
\* nothing for a null frame, null pixel data or a null destination and
\* for every angle other than 0, 90, 180 and 270, whatever the size of
\* the frame; for the four angles and valid pointers it succeeds.
C31_OnlyFourAngles ==
    Copied =>
        /\ (NullArgument \/ copy.rotate \notin ValidAngles)
              => copy.ret = "kErrorCode_Invalid_Param" /\ Unwritten
        /\ (~NullArgument /\ copy.rotate \in ValidAngles)
              => copy.ret = "kErrorCode_Success"

\* the width of the output of a copy of frame by rotate: width and height
\* are swapped for 90 and 270
TurnedWidth(frame, rotate) ==
    IF rotate \in {90, 270} THEN frame.height ELSE frame.width
\* the first call was given one of the four angles, valid pointers, the
\* output width that belongs to the angle and a buffer of width * height
\* pixels; rotate is the angle of that call
WellFormed(rotate) ==
    /\ ~NullArgument
    /\ rotate \in ValidAngles
    /\ DOMAIN copy.distBuffer
          = 0..(copy.first.width * copy.first.height - 1)
    /\ copy.stage = "copied" => copy.outWidth = TurnedWidth(copy.first, rotate)
    /\ copy.stage = "back" => copy.frame.width = TurnedWidth(copy.first, rotate)

\* C32: a rotated copy by 0, 90, 180 or 270 into a buffer with width and
\* height swapped for 90 and 270 writes every source pixel to an index
\* of its own inside the buffer, and copying the result by the opposite
\* angle gives the original frame pixel for pixel.
C32_RotationRoundTrip ==
    /\ (copy.stage = "copied" /\ WellFormed(copy.rotate))
          => /\ copy.ret = "kErrorCode_Success"
             /\ ~copy.wild
             /\ \A k \in DOMAIN copy.first.data :
                   \E i \in DOMAIN copy.distBuffer :
                      /\ copy.distBuffer[i] = copy.first.data[k]
                      /\ \A j \in DOMAIN copy.distBuffer :
                            copy.distBuffer[j] = copy.first.data[k] => j = i
    /\ (copy.stage = "back" /\ WellFormed((360 - copy.rotate) % 360))
          => /\ copy.ret = "kErrorCode_Success"
             /\ ~copy.wild
             /\ copy.distBuffer = copy.first.data
\* a frame of 1 x 2 pixels was copied by 90 and the result by 270
C32_Witness ==
    /\ copy.stage = "back"
    /\ WellFormed(90)
    /\ copy.rotate = 270
    /\ copy.first.width = 1
    /\ copy.first.height = 2
    /\ copy.frame.width = 2
    /\ copy.frame.data # copy.first.data
    /\ copy.distBuffer = copy.first.data

\* a call of Convert was made in this step
Converted == converter'.calls = converter.calls + 1

\* C33: a call of Convert on a converter without kernel (the first call)
\* builds one; a call on a converter with a kernel keeps that kernel when
\* the frame has the pixel format of the previous call's frame and
\* replaces it only when the format differs; the converted frame of every
\* call that returns has the timestamp of the source frame.
C33_KernelReuse ==
    [][Converted =>
          /\ converter.calls = 0 => converter.swsContext = 0
          /\ converter.swsContext = 0
                => (converter'.threw \/ converter'.swsContext > converter.made)
          /\ (converter.swsContext # 0
                 /\ converter'.given.format = converter.given.format)
                => /\ converter'.swsContext = converter.swsContext
                   /\ converter'.made = converter.made
                   /\ ~converter'.threw
          /\ (converter.swsContext # 0
                 /\ converter'.given.format # converter.given.format)
                => (converter'.threw \/ converter'.swsContext > converter.made)
          /\ ~converter'.threw => converter'.pts = converter'.given.pts]_vars
\* the third call reused the second kernel of the converter for a frame
\* with a negative timestamp
C33_Witness ==
    /\ converter # NoConverter
    /\ converter.calls = 3
    /\ converter.kept
    /\ converter.swsContext = 2
    /\ converter.given.pts = 0 - 1
    /\ converter.pts = 0 - 1

\* C34: in every state of a running process the running flag is set
\* exactly when Worker holds a joinable handle, also after a decode thread
\* left LoopPlay at its entry because the context was missing.
C34_FlagMatchesHandle == aborted = "no" => (IsRunning <=> Joinable(Worker))

\* Open was called in this step and rejected because the session is open
OpenRejected ==
    \E c \in callers :
       /\ cpc[c] = "idle"
       /\ cop'[c] = "Open"
       /\ cpc'[c] = "open_fail"
       /\ carg'[c] = "already"

\* C35: an Open that is rejected because the session is already open
\* leaves the stored options of the running session as they were.
C35_RejectedOpenKeepsOptions ==
    [][(Context.open /\ OpenRejected) => Options' = Options]_vars

\* C36: when the frame callback starts, the published position is the
\* TimeMills of the frame it is given, whatever timestamps the decoded
\* frame carries (absent and negative ones included).
C36_PositionIsFrameTime ==
    stamp.stage = "callback" => stamp.CurrentTimeMills = stamp.TimeMills

\* C37: on an open session the playback position lies between 0 and the
\* duration GetDurationMills reports, in particular after a seek to the
\* end, whichever of the container and stream durations are known and
\* whichever of them is larger.
C37_PositionWithinDuration ==
    (Context.open /\ aborted = "no")
        => /\ 0 <= CurrentTimeMills
           /\ CurrentTimeMills <= GetDurationMills(Context)

\* nothing of a session is held, the flag is clear and no thread exists
Closed ==
    /\ ~Context.open /\ ~IO /\ ~VideoInfo /\ ~FormatConverter
    /\ ~IsRunning /\ ~Joinable(Worker) /\ AllJoined

\* C38: when Close has returned the session is closed: IsRunning is
\* false and GetDurationMills is 0; on the closed session Resume and
\* SeekToPercent return false and start no thread, another Close changes
\* nothing, and an Open is not rejected as already open and, when it
\* succeeds, starts playback at position 0.
C38_ClosedSession ==
    /\ [](\A c \in AllCallers :
            Returned(c, "Close")
                => Closed /\ GetDurationMills(Context) = 0)
    /\ [][\A c \in AllCallers :
            (Closed /\ cpc[c] = "idle" /\ cop'[c] \in {"Resume", "Seek"})
                => /\ cpc'[c] = "ret"
                   /\ ~cres'[c]
                   /\ UNCHANGED <<session, tvars>>]_vars
    /\ [][\A c \in AllCallers :
            (Closed /\ cop'[c] = "Close" /\ cpc'[c] # cpc[c])
                => /\ UNCHANGED <<session, tvars>>
                   /\ ctmp'[c] = NoThread]_vars
    /\ [][\A c \in AllCallers :
            (Closed /\ cpc[c] = "idle" /\ cop'[c] = "Open")
                => /\ carg'[c] # "already"
                   /\ carg'[c] = "ok"
                         => /\ Context'.open
                            /\ CurrentTimeMills' = 0
                            /\ readIdx' = 0]_vars
    /\ [](\A c \in AllCallers :
            (Returned(c, "Open") /\ cres[c])
                => IsRunning /\ Joinable(Worker))
\* Resume has returned false on a session that was closed after it had
\* played beyond its first frame
C38_Witness ==
    \E c \in AllCallers :
        Returned(c, "Resume") /\ ~cres[c] /\ Closed /\ CurrentTimeMills > 0

\* width and height of the pixel buffer of a delivered frame: those of
\* convertedFrame, or of the decoded frame when it is delivered itself
BufferSize(frame) ==
    IF frame.AvFrame = "convertedFrame"
    THEN <<frame.FormatConverter.distWidth, frame.FormatConverter.distHeight>>
    ELSE <<frame.originWidth, frame.originHeight>>
\* a size after a rotation by angle
Turned(size, angle) ==
    IF angle \in {90, 270} THEN <<size[2], size[1]>> ELSE size

\* C39: the Width and Height of every delivered frame are the size of its
\* pixel buffer once the reported Rotation is applied; for a converted
\* frame they are the converter's target size, and the converter's source
\* size is the size of the decoded frame.
C39_SizeMatchesBuffer ==
    vf # NoVideoFrame =>
        /\ <<vf.Width, vf.Height>> = Turned(BufferSize(vf), vf.Rotation)
        /\ vf.AvFrame = "convertedFrame"
              => /\ vf.Width = vf.FormatConverter.distWidth
                 /\ vf.Height = vf.FormatConverter.distHeight
                 /\ vf.FormatConverter.srcWidth = vf.originWidth
                 /\ vf.FormatConverter.srcHeight = vf.originHeight

\* the last call on the stream was its construction from an open
\* descriptor
Constructed ==
    /\ stream.class = "VideoFileDescriptorStream"
    /\ stream.valid
    /\ ioResult.op = "VideoFileDescriptorStream"

\* C40: when a stream has been made from an open descriptor, whichever
\* steps of the seekability probe failed, the descriptor is at the offset
\* it had before and the stream's read position is that offset, so that
\* the first Read starts there.
C40_ProbeKeepsOffset ==
    Constructed
        => /\ file.offset = ioResult.at
           /\ stream.read_position = file.offset
====
